---- MODULE Spec2Model ----
(***************************************************************************)
(* A model of the eventcron daemon: the command executor                   *)
(* (pkg/eventcron/executor.go), the inotify watcher, the rule model and    *)
(* the daemon's dispatch / reload / shutdown protocol.                     *)
(*                                                                         *)
(* Strings the code inspects character by character (paths, file names)    *)
(* are sequences of one-character strings.  An event mask is a natural     *)
(* number below 2^32 and the bit operations are computed on the bits.      *)
(***************************************************************************)
EXTENDS Integers, Sequences, FiniteSets, TLC

(***************************************************************************)
(* Bounds of the model.                                                    *)
(***************************************************************************)
\* Number of Execute calls a behaviour may issue (goroutines calling Execute).
NExec == 3
\* Largest maxConcurrent the executor is configured with in the executor
\* specification (the daemon's configuration uses defaultMaxConcurrent).
MaxCap == 2

(***************************************************************************)
(* Program constants.                                                      *)
(***************************************************************************)
InModify == 2
InCreate == 256
InDelete == 512
InDeleteSelf == 1024
InIgnored == 32768
InIsdir == 1073741824
defaultMaxConcurrent == 32

\* No goroutine / no value.
NoG == 0

(***************************************************************************)
(* uint32 bit operations.                                                  *)
(***************************************************************************)
RECURSIVE BitAnd(_, _)
BitAnd(a, b) ==
    IF a = 0 \/ b = 0 THEN 0
    ELSE (IF a % 2 = 1 /\ b % 2 = 1 THEN 1 ELSE 0) + 2 * BitAnd(a \div 2, b \div 2)

RECURSIVE BitOr(_, _)
BitOr(a, b) ==
    IF a = 0 THEN b
    ELSE IF b = 0 THEN a
    ELSE (IF a % 2 = 1 \/ b % 2 = 1 THEN 1 ELSE 0) + 2 * BitOr(a \div 2, b \div 2)

(***************************************************************************)
(* Strings as sequences of characters.                                     *)
(***************************************************************************)
HasPrefix(s, p) == Len(s) >= Len(p) /\ SubSeq(s, 1, Len(p)) = p

\* strings.Contains(s, c) for a one-character c.
ContainsChar(s, c) == \E i \in 1..Len(s) : s[i] = c

\* strings.ReplaceAll(s, old, new): left to right, non-overlapping.
RECURSIVE ReplaceAll(_, _, _)
ReplaceAll(s, old, new) ==
    IF Len(s) = 0 THEN <<>>
    ELSE IF HasPrefix(s, old) THEN new \o ReplaceAll(SubSeq(s, Len(old) + 1, Len(s)), old, new)
    ELSE <<s[1]>> \o ReplaceAll(Tail(s), old, new)

\* strings.TrimSpace(s) = "" : every character is white space.
IsBlank(s) == \A i \in 1..Len(s) : s[i] = " "

(***************************************************************************)
(* The rule model (IncronEntry) and the events of the model.               *)
(***************************************************************************)
Entry(path, mask, command, noLoop, recursive, dotDirs) ==
    [Path |-> path, Mask |-> mask, Command |-> command,
     NoLoop |-> noLoop, Recursive |-> recursive, DotDirs |-> dotDirs]

InotifyEvent(watchDir, name, path, mask) ==
    [WatchDir |-> watchDir, Name |-> name, Path |-> path, Mask |-> mask]

\* ReverseEventMaskMap, restricted to the flags the model's events carry.
\* IN_ALL_EVENTS (0xfff) is a key of the map like any single flag.
InAllEvents == 4095
ReverseEventMaskMap ==
    {<<InModify, "IN_MODIFY">>, <<InCreate, "IN_CREATE">>, <<InDelete, "IN_DELETE">>,
     <<InDeleteSelf, "IN_DELETE_SELF">>, <<InIgnored, "IN_IGNORED">>,
     <<InIsdir, "IN_ISDIR">>, <<InAllEvents, "IN_ALL_EVENTS">>}

\* The names eventMaskToText collects: every map entry whose flag meets the mask.
MaskNames(mask) == {fn[2] : fn \in {x \in ReverseEventMaskMap : BitAnd(mask, x[1]) # 0}}

\* strings.Join(parts, sep)
RECURSIVE JoinWith(_, _)
JoinWith(parts, sep) ==
    IF Len(parts) = 0 THEN <<>>
    ELSE IF Len(parts) = 1 THEN <<parts[1]>>
    ELSE <<parts[1]>> \o sep \o JoinWith(Tail(parts), sep)

\* All orders in which a Go map iteration can yield the members of S.
Orderings(S) ==
    {f \in [1..Cardinality(S) -> S] : \A i, j \in 1..Cardinality(S) : i # j => f[i] # f[j]}

\* The digits of strconv.ParseUint and of fmt's %x.
Digits == <<"0", "1", "2", "3", "4", "5", "6", "7", "8", "9",
            "a", "b", "c", "d", "e", "f">>
UpperDigits == <<"0", "1", "2", "3", "4", "5", "6", "7", "8", "9",
                 "A", "B", "C", "D", "E", "F">>

\* fmt.Sprintf("%x", n)
RECURSIVE FormatHex(_)
FormatHex(n) ==
    IF n < 16 THEN <<Digits[n + 1]>>
    ELSE FormatHex(n \div 16) \o <<Digits[(n % 16) + 1]>>

\* eventMaskToText: the names in map-iteration order, comma-joined; "0x<hex>"
\* when no name applies.  The result is one of these texts.
EventMaskTexts(mask) ==
    IF MaskNames(mask) = {} THEN {<<"0", "x">> \o FormatHex(mask)}
    ELSE {JoinWith(o, <<",">>) : o \in Orderings(MaskNames(mask))}

\* ExpandCommand: five successive ReplaceAll passes over the whole string.
ExpandCommand(command, watchPath, filename, maskText, eventMask) ==
    LET c1 == ReplaceAll(command, <<"$", "$">>, <<"$">>)
        c2 == ReplaceAll(c1, <<"$", "@">>, watchPath)
        c3 == ReplaceAll(c2, <<"$", "#">>, filename)
        c4 == ReplaceAll(c3, <<"$", "%">>, maskText)
    IN  ReplaceAll(c4, <<"$", "&">>, <<ToString(eventMask)>>)

\* parseCommand: TrimSpace, then Fields; no argument when the text is blank.
ParseCommandEmpty(cmdStr) == IsBlank(cmdStr)

(***************************************************************************)
(* The text of a table line and its parser.  A line is a sequence of       *)
(* characters; an event name (IN_CREATE), an option key (loopable) and a   *)
(* boolean word (true) stand as one element each, since the code only      *)
(* compares them as wholes.  Masks are the numbers below 2^31: IN_ONESHOT   *)
(* (bit 31) and the numerals from 2^31 on are outside the model.           *)
(***************************************************************************)
\* unicode.IsSpace on the characters of the model.
IsSpace(c) == c \in {" ", "\t"}

\* strings.TrimSpace
RECURSIVE TrimLeft(_)
TrimLeft(s) == IF s # <<>> /\ IsSpace(s[1]) THEN TrimLeft(Tail(s)) ELSE s
RECURSIVE TrimRight(_)
TrimRight(s) ==
    IF s # <<>> /\ IsSpace(s[Len(s)]) THEN TrimRight(SubSeq(s, 1, Len(s) - 1)) ELSE s
TrimSpace(s) == TrimRight(TrimLeft(s))

\* strings.Index(s, c) for a one-character c, counted from 1; 0 when absent.
IndexOf(s, c) ==
    IF ContainsChar(s, c)
    THEN CHOOSE i \in 1..Len(s) : s[i] = c /\ \A j \in 1..(i - 1) : s[j] # c
    ELSE 0

\* strings.SplitN(s, sep, n) for n > 0 and a one-character sep; SplitAt
\* cuts at i, the index of the first sep (0: none).
RECURSIVE SplitN(_, _, _), SplitAt(_, _, _, _)
SplitAt(s, sep, n, i) ==
    IF n <= 1 \/ i = 0 THEN <<s>>
    ELSE <<SubSeq(s, 1, i - 1)>> \o SplitN(SubSeq(s, i + 1, Len(s)), sep, n - 1)
SplitN(s, sep, n) == SplitAt(s, sep, n, IndexOf(s, sep))

\* strings.Split(s, sep)
Split(s, sep) == SplitN(s, sep, Len(s) + 1)

\* strings.Join(parts, sep) for parts that are strings.
RECURSIVE JoinParts(_, _)
JoinParts(parts, sep) ==
    IF Len(parts) = 0 THEN <<>>
    ELSE IF Len(parts) = 1 THEN parts[1]
    ELSE parts[1] \o sep \o JoinParts(Tail(parts), sep)

IsDigit(c, base) == \E i \in 1..base : c \in {Digits[i], UpperDigits[i]}
DigitValue(c) == (CHOOSE i \in 1..16 : c \in {Digits[i], UpperDigits[i]}) - 1

RECURSIVE DigitsValue(_, _)
DigitsValue(s, base) ==
    IF s = <<>> THEN 0
    ELSE DigitsValue(SubSeq(s, 1, Len(s) - 1), base) * base + DigitValue(s[Len(s)])

\* The numeral is one the model has the value of: at most nine decimal
\* digits, or at most eight hexadecimal digits of which the first is below 8.
InRange(s, base) ==
    IF base = 10 THEN Len(s) <= 9
    ELSE Len(s) <= 7 \/ (Len(s) = 8 /\ DigitValue(s[1]) <= 7)

\* strconv.ParseUint(s, base, 32): [ok, val].
ParseUint(s, base) ==
    IF s = <<>> \/ \E i \in 1..Len(s) : ~ IsDigit(s[i], base)
    THEN [ok |-> FALSE, val |-> 0]
    ELSE [ok |-> InRange(s, base), val |-> IF InRange(s, base) THEN DigitsValue(s, base) ELSE 0]

\* parseNumericMask
parseNumericMask(s) ==
    LET hex == HasPrefix(s, <<"0", "x">>) \/ HasPrefix(s, <<"0", "X">>)
    IN  ParseUint(IF hex THEN SubSeq(s, 3, Len(s)) ELSE s, IF hex THEN 16 ELSE 10)

\* The flags MaskToString looks for, in its order, with their names in
\* ReverseEventMaskMap.
MaskFlags ==
    << <<1, "IN_ACCESS">>, <<2, "IN_MODIFY">>, <<4, "IN_ATTRIB">>,
       <<8, "IN_CLOSE_WRITE">>, <<16, "IN_CLOSE_NOWRITE">>, <<32, "IN_OPEN">>,
       <<64, "IN_MOVED_FROM">>, <<128, "IN_MOVED_TO">>, <<256, "IN_CREATE">>,
       <<512, "IN_DELETE">>, <<1024, "IN_DELETE_SELF">>, <<2048, "IN_MOVE_SELF">>,
       <<8192, "IN_UNMOUNT">>, <<16384, "IN_Q_OVERFLOW">>, <<32768, "IN_IGNORED">>,
       <<16777216, "IN_ONLYDIR">>, <<33554432, "IN_DONT_FOLLOW">>,
       <<67108864, "IN_EXCL_UNLINK">>, <<536870912, "IN_MASK_ADD">>,
       <<1073741824, "IN_ISDIR">> >>

\* EventMaskMap: the flags above and the three combined names.
EventMaskMap ==
    {MaskFlags[i] : i \in 1..Len(MaskFlags)}
        \cup {<<4095, "IN_ALL_EVENTS">>, <<192, "IN_MOVE">>, <<24, "IN_CLOSE">>}
EventNames == {fn[2] : fn \in EventMaskMap}
EventMaskOf(name) == (CHOOSE fn \in EventMaskMap : fn[2] = name)[1]

\* MaskToString from the i-th flag on: the names of the flags that are set.
RECURSIVE MaskParts(_, _)
MaskParts(mask, i) ==
    IF i > Len(MaskFlags) THEN <<>>
    ELSE IF BitAnd(mask, MaskFlags[i][1]) # 0
    THEN <<<<MaskFlags[i][2]>>>> \o MaskParts(mask, i + 1)
    ELSE MaskParts(mask, i + 1)

\* The bits of mask that are none of the flags of MaskToString.
RECURSIVE MaskResidue(_, _)
MaskResidue(mask, i) ==
    IF i > Len(MaskFlags) THEN mask
    ELSE IF BitAnd(mask, MaskFlags[i][1]) # 0
    THEN MaskResidue(mask - MaskFlags[i][1], i + 1)
    ELSE MaskResidue(mask, i + 1)

\* IncronEntry.MaskToString: the names of the flags that are set, then the
\* other bits as "0x<hex>", comma-joined; "0" when there is neither.
ResidueParts(rest) == IF rest # 0 THEN <<<<"0", "x">> \o FormatHex(rest)>> ELSE <<>>
JoinMaskParts(parts) == IF parts = <<>> THEN <<"0">> ELSE JoinParts(parts, <<",">>)
MaskToStringNamesOnly(mask) ==
    IF mask = InAllEvents THEN <<"IN_ALL_EVENTS">> ELSE JoinMaskParts(MaskParts(mask, 1))
MaskToString(mask) ==
    IF mask = InAllEvents THEN <<"IN_ALL_EVENTS">>
    ELSE JoinMaskParts(MaskParts(mask, 1) \o ResidueParts(MaskResidue(mask, 1)))

\* IncronEntry.String: the options that differ from the defaults follow the
\* events in the second field.
OptionParts(e) ==
    (IF ~ e.NoLoop THEN <<<<"loopable", "=", "true">>>> ELSE <<>>)
        \o (IF ~ e.Recursive THEN <<<<"recursive", "=", "false">>>> ELSE <<>>)
        \o (IF e.DotDirs THEN <<<<"dotdirs", "=", "true">>>> ELSE <<>>)
WithOptions(events, opts) ==
    IF opts = <<>> THEN events ELSE events \o <<",">> \o JoinParts(opts, <<",">>)
String(e) ==
    e.Path \o <<" ">> \o WithOptions(MaskToString(e.Mask), OptionParts(e))
        \o <<" ">> \o e.Command

\* The defaults of ParseEntry.
DefaultOptions == [NoLoop |-> TRUE, Recursive |-> TRUE, DotDirs |-> FALSE]

\* parseOption: [err, opts].  SetOption is the switch on the trimmed key.
SetOption(key, value, opts) ==
    IF key \notin {<<"loopable">>, <<"recursive">>, <<"dotdirs">>}
    THEN [err |-> "unknown option", opts |-> opts]
    ELSE IF value \notin {<<"true">>, <<"false">>}
    THEN [err |-> "invalid value", opts |-> opts]
    ELSE IF key = <<"loopable">>
    THEN [err |-> "", opts |-> [opts EXCEPT !.NoLoop = ~ (value = <<"true">>)]]
    ELSE IF key = <<"recursive">>
    THEN [err |-> "", opts |-> [opts EXCEPT !.Recursive = (value = <<"true">>)]]
    ELSE [err |-> "", opts |-> [opts EXCEPT !.DotDirs = (value = <<"true">>)]]
OptionOf(parts, opts) == SetOption(TrimSpace(parts[1]), TrimSpace(parts[2]), opts)
parseOptionFromDefaults(optStr, opts) == OptionOf(SplitN(optStr, "=", 2), DefaultOptions)
parseOption(optStr, opts) == OptionOf(SplitN(optStr, "=", 2), opts)

\* parseMask, the loop over the comma-separated parts: [err, mask, opts].
\* A part with "=" is an option, a name of EventMaskMap is its mask, anything
\* else must be a numeral.
RECURSIVE ParseMaskParts(_, _, _), ParseMaskPart(_, _, _, _)
RECURSIVE AfterOption(_, _, _, _), AfterNumeric(_, _, _, _)
AfterOption(o, rest, mask, opts) ==
    IF o.err # "" THEN [err |-> o.err, mask |-> 0, opts |-> opts]
    ELSE ParseMaskParts(rest, mask, o.opts)
AfterNumeric(num, rest, mask, opts) ==
    IF num.ok THEN ParseMaskParts(rest, BitOr(mask, num.val), opts)
    ELSE [err |-> "unknown event mask", mask |-> 0, opts |-> opts]
ParseMaskPart(part, rest, mask, opts) ==
    IF ContainsChar(part, "=") THEN AfterOption(parseOption(part, opts), rest, mask, opts)
    ELSE IF Len(part) = 1 /\ part[1] \in EventNames
    THEN ParseMaskParts(rest, BitOr(mask, EventMaskOf(part[1])), opts)
    ELSE AfterNumeric(parseNumericMask(part), rest, mask, opts)
ParseMaskParts(parts, mask, opts) ==
    IF parts = <<>> THEN [err |-> "", mask |-> mask, opts |-> opts]
    ELSE ParseMaskPart(TrimSpace(Head(parts)), Tail(parts), mask, opts)

\* parseMask: [err, mask, opts].
CheckMask(r) ==
    IF r.err = "" /\ r.mask = 0
    THEN [err |-> "no valid event mask", mask |-> 0, opts |-> r.opts]
    ELSE r
parseMask(maskStr, opts) == CheckMask(ParseMaskParts(Split(maskStr, ","), 0, opts))

\* ParseEntry: no rule and no error for an empty line or a comment, an error,
\* or a rule.
NoRule == [kind |-> "none"]
ParseError(err) == [kind |-> "error", err |-> err]
ParsedRule(parts, m) ==
    IF m.err # "" THEN ParseError(m.err)
    ELSE [kind |-> "rule",
          entry |-> Entry(parts[1], m.mask, parts[3],
                          m.opts.NoLoop, m.opts.Recursive, m.opts.DotDirs)]
ParseFields(parts) ==
    IF Len(parts) < 3 THEN ParseError("invalid format")
    ELSE ParsedRule(parts, parseMask(parts[2], DefaultOptions))
ParseLine(line) ==
    IF line = <<>> \/ line[1] = "#" THEN NoRule ELSE ParseFields(SplitN(line, " ", 3))
ParseEntry(text) == ParseLine(TrimSpace(text))

(***************************************************************************)
(* Go maps as functions whose domain is the set of keys.                   *)
(***************************************************************************)
EmptyMap == [k \in {} |-> 0]
MapPut(m, k, v) == [x \in (DOMAIN m) \cup {k} |-> IF x = k THEN v ELSE m[x]]
MapDelete(m, k) == [x \in (DOMAIN m) \ {k} |-> m[x]]

(***************************************************************************)
(* Paths.                                                                  *)
(***************************************************************************)
\* filepath.Clean on the paths of the model: repeated separators collapse and
\* a trailing separator is dropped (no "." or ".." element occurs).
RECURSIVE CollapseSlashes(_)
CollapseSlashes(s) ==
    IF Len(s) <= 1 THEN s
    ELSE IF s[1] = "/" /\ s[2] = "/" THEN CollapseSlashes(Tail(s))
    ELSE <<s[1]>> \o CollapseSlashes(Tail(s))

CleanPath(s) ==
    LET c == CollapseSlashes(s)
    IN  IF Len(c) > 1 /\ c[Len(c)] = "/" THEN SubSeq(c, 1, Len(c) - 1) ELSE c

\* filepath.Join(dir, name)
JoinPath(dir, name) == CleanPath(dir \o <<"/">> \o name)

(***************************************************************************)
(* Inputs of the executor specification.                                   *)
(***************************************************************************)
PathD == <<"/", "d">>
PathE == <<"/", "e">>
NameF == <<"f">>
CmdRun == <<"r", "u", "n">>
CmdName == <<"$", "#">>

\* user.Lookup succeeds for these; "ghost" owns a table but is no OS user.
OsUsers == {"root", "alice", "bob"}

EntryD == Entry(PathD, InCreate, CmdRun, TRUE, TRUE, FALSE)
EntryDLoopable == Entry(PathD, InCreate, CmdName, FALSE, TRUE, FALSE)
EntryE == Entry(PathE, InCreate, CmdRun, TRUE, TRUE, FALSE)
EventCreateF == InotifyEvent(PathD, NameF, PathD \o <<"/">> \o NameF, InCreate)
EventDeleteSelf == InotifyEvent(PathD, <<>>, PathD, InDeleteSelf)

\* The calls of the executor specification: <<entry, event, user>>.
ExecCalls ==
    {<<EntryD, EventCreateF, "alice">>, <<EntryD, EventCreateF, "root">>,
     <<EntryDLoopable, EventCreateF, "alice">>, <<EntryDLoopable, EventDeleteSelf, "alice">>,
     <<EntryE, EventCreateF, "alice">>, <<EntryD, EventCreateF, "ghost">>}

(***************************************************************************)
(* State.                                                                  *)
(***************************************************************************)
VARIABLES
    \* CommandExecutor
    ceMu,             \* ce.mu: [w |-> goroutine holding Lock or NoG, r |-> RLock holders]
    runningCommands,  \* ce.runningCommands: the ids (= calls) with a record in the map
    currentCount,     \* ce.currentCount
    maxConcurrent,    \* ce.maxConcurrent
    ex,               \* the Execute calls: position, arguments, outcome
    child,            \* per call: the child process ("none", "running", "reaped")
    resultChan        \* per call: the buffered result channel of runCommand

VARIABLES
    \* The file system and the kernel's inotify instance
    fs,               \* per directory of the model: its inode, 0 when it does not exist
    nextIno,          \* the next inode number
    fsOps,            \* file-system operations performed so far
    kWatch,           \* the kernel's watches: wd -> [ino, mask]
    kNextWd,          \* the next watch descriptor the kernel hands out
    kQueue,           \* the kernel's queue of unread event records
    fdOpen,           \* the inotify descriptor is open
    apiCalls          \* calls of the watcher's interface made so far

VARIABLES
    \* Watcher
    watches,          \* w.watches: wd -> WatchInfo
    pathWatches,      \* w.pathWatches: path -> wd
    wRunning,         \* w.running
    wDone,            \* w.done is closed
    events,           \* w.events: [buf |-> queued events, closed |-> BOOLEAN]
    errors,           \* w.errors: [buf |-> queued errors, closed |-> BOOLEAN]
    rd                \* the readEvents goroutine: position, buffer being parsed

VARIABLES
    \* Daemon and its environment
    tableFiles,       \* the table files: [user, system], each a map name -> lines
    permFiles,        \* the allow and deny files: [allow, deny], each a PermFile
    tables,           \* d.userTables and d.systemTables: [user, system]
    hd,               \* the handleEvent goroutines: position, event, loop variables
    sg,               \* the handleSignals goroutine: position and sigChan
    shutdown,         \* d.shutdown is closed
    done,             \* d.done is closed
    mainPc            \* the main goroutine: "new", "run", "waitall", "killall", "exited"

execVars == <<ceMu, runningCommands, currentCount, maxConcurrent, ex, child, resultChan>>
kernelVars == <<fs, nextIno, fsOps, kWatch, kNextWd, kQueue, fdOpen>>
envVars == <<apiCalls, tableFiles, permFiles>>
watchVars == <<watches, pathWatches, wRunning, wDone, events, errors, rd>>
daemonVars == <<tables, hd, sg, shutdown, done, mainPc>>
vars == <<execVars, kernelVars, watchVars, envVars, daemonVars>>

G == 1..NExec
NoResult == [kind |-> "none"]
NoEntry == [kind |-> "nil"]
NoEvent == [kind |-> "nil"]

\* A pointer to an entry that nothing writes while the pointer is in use.
ValPtr(e) == [kind |-> "val", entry |-> e]
\* &entry in handleEvent: the address of the variable of the k-th range loop
\* over a table's entries that handler h runs (one variable per loop).
LoopPtr(h, k) == [kind |-> "loop", h |-> h, k |-> k]
\* The entry a pointer refers to, read now.
Deref(p) == IF p.kind = "loop" THEN hd[p.h].cells[p.k] ELSE p.entry

IdleCall == [pc |-> "idle", entry |-> NoEntry, event |-> NoEvent, user |-> "", err |-> ""]

\* sync.RWMutex: Lock succeeds when nobody holds the mutex in either mode.
MuLockFree(m) == m.w = NoG /\ m.r = {}
\* RLock succeeds when no writer holds it.
MuRLockFree(m) == m.w = NoG
FreeMu == [w |-> NoG, r |-> {}]

\* The goroutine slot a new call gets.
NextCall == CHOOSE g \in G : ex[g].pc = "idle" /\ \A h \in G : ex[h].pc = "idle" => g <= h

InitExecutor(max) ==
    /\ ceMu = FreeMu
    /\ runningCommands = {}
    /\ currentCount = 0
    /\ maxConcurrent = max
    /\ ex = [g \in G |-> IdleCall]
    /\ child = [g \in G |-> "none"]
    /\ resultChan = [g \in G |-> NoResult]

(***************************************************************************)
(* The file system and the kernel side of inotify (inotify(7)): what       *)
(* unix.InotifyAddWatch, unix.InotifyRmWatch and unix.Read on the          *)
(* descriptor do.                                                          *)
(***************************************************************************)
PathDS == <<"/", "d", "/", "s">>
NameS == <<"s">>
PathDH == <<"/", "d", "/", ".", "h">>
\* The directories of the model, in lexical order (the order of filepath.Walk).
DirOrder == <<PathD, PathDH, PathDS>>
Dirs == {DirOrder[i] : i \in 1..Len(DirOrder)}

LastSlash(p) == CHOOSE i \in 1..Len(p) : p[i] = "/" /\ \A j \in (i + 1)..Len(p) : p[j] # "/"
\* filepath.Dir and filepath.Base of a clean absolute path.
Parent(p) == IF LastSlash(p) = 1 THEN <<"/">> ELSE SubSeq(p, 1, LastSlash(p) - 1)
BaseName(p) == SubSeq(p, LastSlash(p) + 1, Len(p))
IsUnder(p, root) == HasPrefix(p, root \o <<"/">>)

\* os.Stat(path) succeeds and reports a directory.
DirExists(path) == CleanPath(path) \in Dirs /\ fs[CleanPath(path)] # 0
InodeOf(path) == fs[CleanPath(path)]

\* The watch the kernel holds on an inode, if any.
KernelWdOf(kw, ino) == {wd \in DOMAIN kw : kw[wd].ino = ino}

\* inotify_add_watch: an inode already watched by this instance keeps its
\* descriptor and gets the new mask; otherwise a new descriptor is handed out.
\* The result: [ok, wd, kWatch, kNextWd].
InotifyAddWatch(kw, next, path, mask) ==
    IF ~ fdOpen \/ ~ DirExists(path)
    THEN [ok |-> FALSE, wd |-> -1, kWatch |-> kw, kNextWd |-> next]
    ELSE IF KernelWdOf(kw, InodeOf(path)) # {}
    THEN LET wd == CHOOSE w \in KernelWdOf(kw, InodeOf(path)) : TRUE
         IN  [ok |-> TRUE, wd |-> wd,
              kWatch |-> [kw EXCEPT ![wd].mask = mask], kNextWd |-> next]
    ELSE [ok |-> TRUE, wd |-> next,
          kWatch |-> MapPut(kw, next, [ino |-> InodeOf(path), mask |-> mask]),
          kNextWd |-> next + 1]

\* The record the kernel queues for a watch: [wd, mask, name].
RawEvent(wd, mask, name) == [wd |-> wd, mask |-> mask, name |-> name]

\* The records queued for an event on inode ino, for the watches that ask for it.
EventsFor(kw, ino, bit, flags, name) ==
    LET wds == {wd \in KernelWdOf(kw, ino) : BitAnd(kw[wd].mask, bit) # 0}
    IN  IF wds = {} THEN <<>>
        ELSE <<RawEvent(CHOOSE w \in wds : TRUE, BitOr(bit, flags), name)>>

\* inotify_rm_watch: EINVAL for a descriptor that is not a watch; otherwise the
\* watch is removed and IN_IGNORED is queued for it.
InotifyRmWatchOk(kw, wd) == fdOpen /\ wd \in DOMAIN kw

\* Bound on the file-system operations of a behaviour.
MaxFsOps == 2

\* mkdir path
Mkdir(p) ==
    /\ fsOps < MaxFsOps
    /\ fs[p] = 0
    /\ IF Parent(p) = <<"/">> THEN TRUE ELSE fs[Parent(p)] # 0
    /\ fs' = [fs EXCEPT ![p] = nextIno]
    /\ nextIno' = nextIno + 1
    /\ fsOps' = fsOps + 1
    /\ kQueue' = IF Parent(p) = <<"/">> THEN kQueue
                 ELSE kQueue \o EventsFor(kWatch, fs[Parent(p)], InCreate, InIsdir, BaseName(p))
    /\ UNCHANGED <<kWatch, kNextWd, fdOpen>>

\* rmdir path: the directory is empty; its watch goes away with the inode.
Rmdir(p) ==
    /\ fsOps < MaxFsOps
    /\ fs[p] # 0
    /\ \A q \in Dirs : IsUnder(q, p) => fs[q] = 0
    /\ fs' = [fs EXCEPT ![p] = 0]
    /\ fsOps' = fsOps + 1
    /\ LET own == KernelWdOf(kWatch, fs[p])
           toParent == IF Parent(p) = <<"/">> THEN <<>>
                       ELSE EventsFor(kWatch, fs[Parent(p)], InDelete, InIsdir, BaseName(p))
           toSelf == IF own = {} THEN <<>>
                     ELSE EventsFor(kWatch, fs[p], InDeleteSelf, 0, <<>>)
                          \o <<RawEvent(CHOOSE w \in own : TRUE, InIgnored, <<>>)>>
       IN  /\ kQueue' = kQueue \o toParent \o toSelf
           /\ kWatch' = [wd \in (DOMAIN kWatch) \ own |-> kWatch[wd]]
    /\ UNCHANGED <<nextIno, kNextWd, fdOpen>>

\* A file is created in a directory (touch dir/f).
CreateFile(dir) ==
    /\ fsOps < MaxFsOps
    /\ fs[dir] # 0
    /\ fsOps' = fsOps + 1
    /\ kQueue' = kQueue \o EventsFor(kWatch, fs[dir], InCreate, 0, NameF)
    /\ UNCHANGED <<fs, nextIno, kWatch, kNextWd, fdOpen>>

FsStep ==
    \/ \E p \in Dirs : Mkdir(p)
    \/ \E p \in Dirs : Rmdir(p)
    \/ \E p \in Dirs : CreateFile(p)

InitKernel ==
    /\ fs = [p \in Dirs |-> CHOOSE i \in 1..Len(DirOrder) : DirOrder[i] = p]
    /\ nextIno = Len(DirOrder) + 1
    /\ fsOps = 0
    /\ kWatch = EmptyMap
    /\ kNextWd = 1
    /\ kQueue = <<>>
    /\ fdOpen = TRUE

(***************************************************************************)
(* Watcher.                                                                *)
(***************************************************************************)
WatchInfo(path, mask, entryPtr, recursive, dotDirs) ==
    [Path |-> path, Mask |-> mask, Entry |-> entryPtr,
     Recursive |-> recursive, DotDirs |-> dotDirs]

\* The part of the state AddWatch and its helpers work on.
WatchState == [kWatch |-> kWatch, kNextWd |-> kNextWd,
               watches |-> watches, pathWatches |-> pathWatches]

\* w.watches[wd] = watchInfo; w.pathWatches[path] = wd
Register(st, k, path, info) ==
    [kWatch |-> k.kWatch, kNextWd |-> k.kNextWd,
     watches |-> MapPut(st.watches, k.wd, info),
     pathWatches |-> MapPut(st.pathWatches, path, k.wd)]

\* removeWatch(wd): the result is [err, st].
RemoveWatchByWd(st, wd) ==
    IF wd \notin DOMAIN st.watches THEN [err |-> "not found", st |-> st]
    ELSE IF ~ InotifyRmWatchOk(st.kWatch, wd) THEN [err |-> "rm failed", st |-> st]
    ELSE [err |-> "",
          st |-> [kWatch |-> MapDelete(st.kWatch, wd), kNextWd |-> st.kNextWd,
                  watches |-> MapDelete(st.watches, wd),
                  pathWatches |-> MapDelete(st.pathWatches, st.watches[wd].Path)]]

\* A directory below root that the walk does not enter: it, or a directory
\* between root and it, has a name starting with "." while dot directories
\* are excluded.
\* The walk with the check for dot directories left out.
DotSkippedNever(q, root, includeDotDirs) == FALSE

RECURSIVE DotSkipped(_, _, _)
DotSkipped(q, root, includeDotDirs) ==
    /\ ~ includeDotDirs
    /\ q # root
    /\ \/ HasPrefix(BaseName(q), <<".">>)
       \/ DotSkipped(Parent(q), root, includeDotDirs)

\* The directories filepath.Walk(rootPath) visits after the root, in its order.
WalkOrder(rootPath) ==
    SelectSeq(DirOrder, LAMBDA q : fs[q] # 0 /\ IsUnder(q, CleanPath(rootPath)))

\* What the system refuses during one call of AddWatch: walk is the directory
\* that filepath.Walk cannot list, add the directory for which
\* inotify_add_watch fails (ENOSPC, EACCES); <<>> when nothing is refused.
NoFail == [walk |-> <<>>, add |-> <<>>]
WatchFailures ==
    {NoFail} \cup {[walk |-> q, add |-> <<>>] : q \in Dirs}
             \cup {[walk |-> <<>>, add |-> q] : q \in Dirs}

\* addRecursiveWatches from the i-th visited directory on.  The result:
\* [err, st].
RECURSIVE WalkFrom(_, _, _, _, _, _)
WalkFrom(order, i, st, rootPath, info, failAt) ==
    IF i > Len(order) THEN [err |-> "", st |-> st]
    ELSE LET q == order[i]
             k == InotifyAddWatch(st.kWatch, st.kNextWd, q, info.Mask)
         IN  IF DotSkipped(q, CleanPath(rootPath), info.DotDirs)
             THEN WalkFrom(order, i + 1, st, rootPath, info, failAt)
             ELSE IF q = failAt.walk THEN [err |-> "walk", st |-> st]
             ELSE IF ~ k.ok \/ q = failAt.add
             THEN WalkFrom(order, i + 1, st, rootPath, info, failAt)
             ELSE WalkFrom(order, i + 1,
                           Register(st, k, q, WatchInfo(q, info.Mask, NoEntry, TRUE, info.DotDirs)),
                           rootPath, info, failAt)

AddRecursiveWatches(st, rootPath, info, failAt) ==
    IF CleanPath(rootPath) = failAt.walk THEN [err |-> "walk", st |-> st]
    ELSE WalkFrom(WalkOrder(rootPath), 1, st, rootPath, info, failAt)

\* The check with only the paths of rules counted as watched.
AlreadyWatchedRootsOnly(st, path) ==
    /\ path \in DOMAIN st.pathWatches
    /\ st.pathWatches[path] \in DOMAIN st.watches
    /\ st.watches[st.pathWatches[path]].Entry # NoEntry

\* _, exists := w.pathWatches[path]
AlreadyWatched(st, path) == path \in DOMAIN st.pathWatches

\* AddWatch(entry), under w.mu.Lock.  The result: [err, st].
AddWatchResult(st, p, failAt) ==
    LET entry == Deref(p)
        path == entry.Path
        info == WatchInfo(path, entry.Mask, p, entry.Recursive, entry.DotDirs)
        k == InotifyAddWatch(st.kWatch, st.kNextWd, path, entry.Mask)
        st1 == Register(st, k, path, info)
        rec == AddRecursiveWatches(st1, path, info, failAt)
    IN  IF AlreadyWatched(st, path) THEN [err |-> "already watched", st |-> st]
        ELSE IF ~ DirExists(path) THEN [err |-> "stat", st |-> st]
        ELSE IF ~ k.ok \/ CleanPath(path) = failAt.add THEN [err |-> "add failed", st |-> st]
        ELSE IF ~ entry.Recursive THEN [err |-> "", st |-> st1]
        ELSE IF rec.err # "" THEN [err |-> "recursive", st |-> RemoveWatchByWd(rec.st, k.wd).st]
        ELSE [err |-> "", st |-> rec.st]

\* The indices and the kernel's watches become those of st; an IN_IGNORED
\* record is queued for every watch that was removed.
RECURSIVE IgnoredFor(_)
IgnoredFor(wds) ==
    IF wds = {} THEN <<>>
    ELSE LET wd == CHOOSE w \in wds : \A v \in wds : w <= v
         IN  <<RawEvent(wd, InIgnored, <<>>)>> \o IgnoredFor(wds \ {wd})

Install(st) ==
    /\ kWatch' = st.kWatch
    /\ kNextWd' = st.kNextWd
    /\ watches' = st.watches
    /\ pathWatches' = st.pathWatches
    /\ kQueue' = kQueue \o IgnoredFor((DOMAIN kWatch) \ (DOMAIN st.kWatch))

\* Watcher.AddWatch called with entry pointer p.
AddWatch(p, failAt) ==
    /\ Install(AddWatchResult(WatchState, p, failAt).st)
    /\ UNCHANGED <<fs, nextIno, fsOps, fdOpen, wRunning, wDone, events, errors, rd>>

\* Watcher.AddWatch for a recursive rule whose directory another process
\* removes after the root's watch was added and before filepath.Walk stats it:
\* the kernel drops the watch with the inode, the walk fails on the root, and
\* removeWatch returns at the failed InotifyRmWatch, before its two deletes.
AddWatchRootRemoved(p) ==
    LET entry == Deref(p)
        path == entry.Path
        root == CleanPath(path)
        info == WatchInfo(path, entry.Mask, p, entry.Recursive, entry.DotDirs)
        k == InotifyAddWatch(kWatch, kNextWd, path, entry.Mask)
        st1 == Register(WatchState, k, path, info)
        toParent == IF Parent(root) = <<"/">> THEN <<>>
                    ELSE EventsFor(st1.kWatch, fs[Parent(root)], InDelete, InIsdir, BaseName(root))
        toSelf == EventsFor(st1.kWatch, fs[root], InDeleteSelf, 0, <<>>)
                     \o <<RawEvent(k.wd, InIgnored, <<>>)>>
        st2 == [st1 EXCEPT !.kWatch = MapDelete(@, k.wd)]
        rm == RemoveWatchByWd(st2, k.wd)
    IN  /\ ~ AlreadyWatched(WatchState, path)
        /\ DirExists(path)
        /\ k.ok
        /\ entry.Recursive
        /\ fsOps < MaxFsOps
        /\ \A q \in Dirs : IsUnder(q, root) => fs[q] = 0
        /\ fs' = [fs EXCEPT ![root] = 0]
        /\ fsOps' = fsOps + 1
        /\ kWatch' = rm.st.kWatch
        /\ kNextWd' = rm.st.kNextWd
        /\ watches' = rm.st.watches
        /\ pathWatches' = rm.st.pathWatches
        /\ kQueue' = kQueue \o toParent \o toSelf
        /\ UNCHANGED <<nextIno, fdOpen, wRunning, wDone, events, errors, rd>>

\* Watcher.RemoveWatch(path)
RemoveWatch(path) ==
    /\ path \in DOMAIN pathWatches
    /\ Install(RemoveWatchByWd(WatchState, pathWatches[path]).st)
    /\ UNCHANGED <<fs, nextIno, fsOps, fdOpen, wRunning, wDone, events, errors, rd>>

\* Bound standing for the capacity of w.events (100 in NewWatcher).
EventChanCap == 2

OpenChan == [buf |-> <<>>, closed |-> FALSE]

\* Watcher.Start
Start ==
    /\ ~ wRunning
    /\ wRunning' = TRUE
    /\ rd' = [pc |-> "select", buf |-> <<>>]
    /\ UNCHANGED <<kernelVars, watches, pathWatches, wDone, events, errors>>

\* readEvents: select on w.done with a default branch.
ReadLoopSelect ==
    /\ rd.pc = "select"
    /\ rd' = [rd EXCEPT !.pc = IF wDone THEN "exit" ELSE "read"]
    /\ UNCHANGED <<kernelVars, watches, pathWatches, wRunning, wDone, events, errors>>

\* Bound standing for the capacity of w.errors (10 in NewWatcher).
ErrorChanCap == 10

\* unix.Read returns the queued records (a read that returns EINTR or no
\* byte is repeated and leaves the state as it is), or fails with another
\* error: always on a descriptor that Stop has closed, and possibly on an
\* open one.
ReadLoopRead ==
    /\ rd.pc = "read"
    /\ \/ /\ fdOpen
          /\ kQueue # <<>>
          /\ rd' = [pc |-> "parse", buf |-> kQueue]
          /\ kQueue' = <<>>
       \/ /\ rd' = [rd EXCEPT !.pc = "senderr"]
          /\ kQueue' = kQueue
    /\ UNCHANGED <<fs, nextIno, fsOps, kWatch, kNextWd, fdOpen,
                   watches, pathWatches, wRunning, wDone, events, errors>>

\* select { case w.errors <- err: ; case <-w.done: }: what it can do.  The
\* send waits while the channel is full and panics on the channel that Stop
\* has closed.
ErrorOutcomes ==
    (IF errors.closed THEN {"panic"}
     ELSE IF Len(errors.buf) < ErrorChanCap THEN {"sent"} ELSE {})
    \cup (IF wDone THEN {"exit"} ELSE {})

\* readEvents after a failed read: the error is handed to w.errors, and the
\* loop returns.
ReadLoopSendError ==
    /\ rd.pc = "senderr"
    /\ \E out \in ErrorOutcomes :
          /\ errors' = IF out = "sent" THEN [errors EXCEPT !.buf = Append(@, "read error")]
                        ELSE errors
          /\ rd' = [rd EXCEPT !.pc = IF out = "panic" THEN "panic" ELSE "exit"]
    /\ UNCHANGED <<kernelVars, watches, pathWatches, wRunning, wDone, events>>

\* createEvent: nil for a descriptor that is not in w.watches.
CreateEvent(raw) ==
    IF raw.wd \notin DOMAIN watches THEN NoEvent
    ELSE LET dir == watches[raw.wd].Path
         IN  InotifyEvent(dir, raw.name,
                          IF raw.name # <<>> THEN JoinPath(dir, raw.name) ELSE dir,
                          raw.mask)

IsDirCreate(mask) == BitAnd(mask, InCreate) # 0 /\ BitAnd(mask, InIsdir) # 0

\* The hand-off as a plain send: it waits while the channel is full.
SendOutcomesBlocking(event) ==
    IF event = NoEvent THEN {"none"}
    ELSE IF events.closed THEN {"panic", "exit"}
    ELSE IF Len(events.buf) < EventChanCap THEN {"sent"}
    ELSE {}

\* The select of parseEvents that takes no account of the channel being closed.
SendOutcomesUnclosed(event) ==
    IF event = NoEvent THEN {"none"}
    ELSE IF Len(events.buf) < EventChanCap THEN {"sent"}
    ELSE {"dropped"}

\* select { case w.events <- event: ; case <-w.done: return; default: drop }:
\* what it can do.  After Stop both w.done and the closed w.events are ready,
\* and the send on the closed channel panics.
SendOutcomes(event) ==
    IF event = NoEvent THEN {"none"}
    ELSE IF events.closed THEN {"panic", "exit"}
    ELSE IF Len(events.buf) < EventChanCap THEN {"sent"}
    ELSE {"dropped"}

\* parseEvents, one record: the event is built and handed to w.events, or
\* dropped when the channel is full.
ParseEvent ==
    /\ rd.pc = "parse"
    /\ rd.buf # <<>>
    /\ LET raw == Head(rd.buf)
           event == CreateEvent(raw)
       IN  \E out \in SendOutcomes(event) :
            /\ events' = IF out = "sent" THEN [events EXCEPT !.buf = Append(@, event)]
                          ELSE events
            /\ rd' = IF out \in {"panic", "exit"} THEN [rd EXCEPT !.pc = out]
                      ELSE IF IsDirCreate(raw.mask) THEN [rd EXCEPT !.pc = "dircreate"]
                      ELSE [rd EXCEPT !.buf = Tail(@)]
    /\ UNCHANGED <<kernelVars, watches, pathWatches, wRunning, wDone, errors>>

\* parseEvents at the end of the buffer: back to the loop of readEvents.
ParseDone ==
    /\ rd.pc = "parse"
    /\ rd.buf = <<>>
    /\ rd' = [rd EXCEPT !.pc = "select"]
    /\ UNCHANGED <<kernelVars, watches, pathWatches, wRunning, wDone, events, errors>>

\* handleDirCreate without the dot-directory policy.
HandleDirCreateAnyName(st, wd, name) ==
    LET info == st.watches[wd]
        newPath == JoinPath(info.Path, name)
        k == InotifyAddWatch(st.kWatch, st.kNextWd, newPath, info.Mask)
    IN  IF wd \notin DOMAIN st.watches THEN st
        ELSE IF ~ info.Recursive THEN st
        ELSE IF ~ DirExists(newPath) THEN st
        ELSE IF ~ k.ok THEN st
        ELSE Register(st, k, newPath, WatchInfo(newPath, info.Mask, NoEntry, TRUE, info.DotDirs))

\* handleDirCreate(wd, name), under w.mu.Lock.  The result is the new state.
HandleDirCreateResult(st, wd, name) ==
    LET info == st.watches[wd]
        newPath == JoinPath(info.Path, name)
        k == InotifyAddWatch(st.kWatch, st.kNextWd, newPath, info.Mask)
    IN  IF wd \notin DOMAIN st.watches THEN st
        ELSE IF ~ info.Recursive THEN st
        ELSE IF ~ info.DotDirs /\ HasPrefix(name, <<".">>) THEN st
        ELSE IF ~ DirExists(newPath) THEN st
        ELSE IF ~ k.ok THEN st
        ELSE Register(st, k, newPath, WatchInfo(newPath, info.Mask, NoEntry, TRUE, info.DotDirs))

HandleDirCreate ==
    /\ rd.pc = "dircreate"
    /\ Install(HandleDirCreateResult(WatchState, Head(rd.buf).wd, Head(rd.buf).name))
    /\ rd' = [pc |-> "parse", buf |-> Tail(rd.buf)]
    /\ UNCHANGED <<fs, nextIno, fsOps, fdOpen, wRunning, wDone, events, errors>>

ReadLoopStep ==
    ReadLoopSelect \/ ReadLoopRead \/ ReadLoopSendError \/ ParseEvent \/ ParseDone \/ HandleDirCreate

InitWatcher ==
    /\ watches = EmptyMap
    /\ pathWatches = EmptyMap
    /\ wRunning = FALSE
    /\ wDone = FALSE
    /\ events = OpenChan
    /\ errors = OpenChan
    /\ rd = [pc |-> "none", buf |-> <<>>]

(***************************************************************************)
(* CommandExecutor.Execute, one action per stretch between two points      *)
(* where the goroutine can be suspended or another goroutine can observe   *)
(* the executor.                                                           *)
(***************************************************************************)
\* A caller (in the daemon: executeCommand) enters Execute.
CallExecute(g, p, ev, user) ==
    /\ ex[g].pc = "idle"
    /\ ex' = [ex EXCEPT ![g] = [pc |-> "lock", entry |-> p, event |-> ev,
                                user |-> user, err |-> ""]]

\* Execute entered without waiting for the mutex.
ExecuteMayLockUnguarded(g) == TRUE

\* ce.mu.Lock() at the top of Execute.
ExecuteMayLock(g) == MuLockFree(ceMu)

ExecuteLock(g) ==
    /\ ex[g].pc = "lock"
    /\ ExecuteMayLock(g)
    /\ ceMu' = [ceMu EXCEPT !.w = g]
    /\ ex' = [ex EXCEPT ![g].pc = "check"]
    /\ UNCHANGED <<runningCommands, currentCount, maxConcurrent, child, resultChan>>

\* The comparison with > in place of >=.
AtCapacityOffByOne == currentCount > maxConcurrent

\* if ce.currentCount >= ce.maxConcurrent
AtCapacity == currentCount >= maxConcurrent

\* The loop-prevention scan: a record of the same path and user is in the map.
LoopConflict(g) ==
    /\ Deref(ex[g].entry).NoLoop
    /\ \E h \in runningCommands :
          /\ Deref(ex[h].entry).Path = Deref(ex[g].entry).Path
          /\ ex[h].user = ex[g].user

\* An error return of Execute: the deferred Unlock releases the mutex.
ReturnError(g, err) ==
    /\ ex' = [ex EXCEPT ![g].pc = "failed", ![g].err = err]
    /\ ceMu' = IF ceMu.w = g THEN [ceMu EXCEPT !.w = NoG] ELSE ceMu

\* The capacity check and the loop-prevention check.
ExecuteCheck(g) ==
    /\ ex[g].pc = "check"
    /\ IF AtCapacity THEN ReturnError(g, "capacity")
       ELSE IF LoopConflict(g) THEN ReturnError(g, "loop")
       ELSE /\ ex' = [ex EXCEPT ![g].pc = "build"]
            /\ UNCHANGED ceMu
    /\ UNCHANGED <<runningCommands, currentCount, maxConcurrent, child, resultChan>>

\* setupUserCredentials is called for a user other than root and "".
NeedsCredentials(user) == user # "root" /\ user # ""
CredentialsFail(user) == NeedsCredentials(user) /\ user \notin OsUsers

\* ExpandCommand .. go ce.runCommand: build the command, store the record,
\* count it and start the child.
ExecuteStart(g) ==
    /\ ex[g].pc = "build"
    /\ \E text \in EventMaskTexts(ex[g].event.Mask) :
         LET e == Deref(ex[g].entry)
             expandedCmd == ExpandCommand(e.Command, ex[g].event.WatchDir,
                                          ex[g].event.Name, text, ex[g].event.Mask)
         IN  IF ParseCommandEmpty(expandedCmd)
             THEN /\ ReturnError(g, "empty")
                  /\ UNCHANGED <<runningCommands, currentCount, child>>
             ELSE IF CredentialsFail(ex[g].user)
             THEN /\ ReturnError(g, "credentials")
                  /\ UNCHANGED <<runningCommands, currentCount, child>>
             ELSE /\ runningCommands' = runningCommands \cup {g}
                  /\ currentCount' = currentCount + 1
                  /\ child' = [child EXCEPT ![g] = "running"]
                  /\ ex' = [ex EXCEPT ![g].pc = "wait"]
                  /\ UNCHANGED ceMu
    /\ UNCHANGED <<maxConcurrent, resultChan>>

\* runCommand: CombinedOutput returns (the child exited, could not be started,
\* or was killed when the context timed out) and the result is sent on the
\* buffered channel.
ResultKinds == {"success", "failure", "cancelled"}

RunCommand(g, kind) ==
    /\ child[g] = "running"
    /\ resultChan[g] = NoResult
    /\ child' = [child EXCEPT ![g] = "reaped"]
    /\ resultChan' = [resultChan EXCEPT ![g] = [kind |-> kind]]
    /\ UNCHANGED <<ceMu, runningCommands, currentCount, maxConcurrent, ex>>

\* result := <-resultChan, and then the call arrives at the second ce.mu.Lock().
ExecuteReceive(g) ==
    /\ ex[g].pc = "wait"
    /\ resultChan[g] # NoResult
    /\ ex' = [ex EXCEPT ![g].pc = "relock"]
    /\ UNCHANGED <<ceMu, runningCommands, currentCount, maxConcurrent, child, resultChan>>

\* ce.mu.Lock(); delete(ce.runningCommands, id); ce.currentCount--; ce.mu.Unlock().
\* sync.RWMutex is not reentrant: the Lock waits for the holder, which is the
\* caller itself since the Lock at the top of Execute.
ExecuteCleanup(g) ==
    /\ ex[g].pc = "relock"
    /\ MuLockFree(ceMu)
    /\ runningCommands' = runningCommands \ {g}
    /\ currentCount' = currentCount - 1
    /\ ex' = [ex EXCEPT ![g].pc = "returned"]
    /\ UNCHANGED <<ceMu, maxConcurrent, child, resultChan>>

\* SetMaxConcurrent (an operation of the executor's interface).
SetMaxConcurrent(max) ==
    /\ MuLockFree(ceMu)
    /\ max # maxConcurrent
    /\ maxConcurrent' = max
    /\ UNCHANGED <<ceMu, runningCommands, currentCount, ex, child, resultChan>>

\* The call waits at the second ce.mu.Lock() for the mutex it holds itself:
\* nothing releases it, so the mutex stays taken from here on.
SelfDeadlocked(g) == ex[g].pc = "relock" /\ ceMu.w = g

\* The call (or its runCommand goroutine) can take a step.
ExecRunnable(g) ==
    \/ ex[g].pc = "lock" /\ ExecuteMayLock(g)
    \/ ex[g].pc \in {"check", "build"}
    \/ child[g] = "running"
    \/ ex[g].pc = "wait" /\ resultChan[g] # NoResult
    \/ ex[g].pc = "relock" /\ MuLockFree(ceMu)

(***************************************************************************)
(* The permission gate.                                                    *)
(***************************************************************************)
\* os.Stat succeeds on the file (also when it cannot be read as a list).
fileExists(f) == f.state # "absent"

\* userInFile: [found, err].  A file that is gone is no error; a file that
\* cannot be read to its end is one.
userInFile(username, f) ==
    IF f.state = "absent" THEN [found |-> FALSE, err |-> FALSE]
    ELSE IF f.state = "unreadable" THEN [found |-> FALSE, err |-> TRUE]
    ELSE [found |-> username \in f.users, err |-> FALSE]

\* The gate with the deny file consulted also when the allow file exists.
CheckUserPermissionDenyToo(username) ==
    IF fileExists(permFiles.allow)
    THEN LET r == userInFile(username, permFiles.allow)
             d == userInFile(username, permFiles.deny)
         IN  [allowed |-> ~ r.err /\ r.found /\ ~ d.found, err |-> r.err]
    ELSE IF fileExists(permFiles.deny)
    THEN LET r == userInFile(username, permFiles.deny)
         IN  [allowed |-> ~ r.err /\ ~ r.found, err |-> r.err]
    ELSE [allowed |-> TRUE, err |-> FALSE]

\* CheckUserPermission: [allowed, err].
CheckUserPermission(username) ==
    IF fileExists(permFiles.allow)
    THEN LET r == userInFile(username, permFiles.allow)
         IN  [allowed |-> ~ r.err /\ r.found, err |-> r.err]
    ELSE IF fileExists(permFiles.deny)
    THEN LET r == userInFile(username, permFiles.deny)
         IN  [allowed |-> ~ r.err /\ ~ r.found, err |-> r.err]
    ELSE [allowed |-> TRUE, err |-> FALSE]

(***************************************************************************)
(* Matching an event against a rule.                                       *)
(***************************************************************************)
\* regexp.MatchString("^" + re + "$", s) for the expressions MatchesPath
\* builds from the characters of the model: "." is any character, x* is any
\* number of x, every other character is itself.
RECURSIVE RegexMatch(_, _)
RegexMatch(re, s) ==
    IF re = <<>> THEN s = <<>>
    ELSE IF Len(re) >= 2 /\ re[2] = "*"
    THEN \/ RegexMatch(SubSeq(re, 3, Len(re)), s)
         \/ /\ s # <<>>
            /\ re[1] \in {".", s[1]}
            /\ RegexMatch(re, Tail(s))
    ELSE /\ s # <<>>
         /\ re[1] \in {".", s[1]}
         /\ RegexMatch(Tail(re), Tail(s))

\* IncronEntry.MatchesPath
MatchesPath(e, path) ==
    IF ContainsChar(e.Path, "*")
    THEN RegexMatch(ReplaceAll(e.Path, <<"*">>, <<".", "*">>), path)
    ELSE e.Path = path

\* The match that looks at the watched directory only.
eventMatchesWatchDirOnly(e, event) ==
    MatchesPath(e, event.WatchDir) /\ BitAnd(e.Mask, event.Mask) # 0

\* Daemon.eventMatches
eventMatches(e, event) ==
    /\ MatchesPath(e, event.WatchDir) \/ MatchesPath(e, event.Path)
    /\ BitAnd(e.Mask, event.Mask) # 0

(***************************************************************************)
(* Daemon: tables, LoadTables, Initialize.                                 *)
(***************************************************************************)
\* Bound on the handleEvent goroutines of a behaviour.
NHandlers == 2
H == 1..NHandlers

IdleHandler ==
    [pc |-> "idle", event |-> NoEvent, todo |-> <<>>, k |-> 0, i |-> 0, cells |-> <<>>]
NoTables == [user |-> EmptyMap, system |-> EmptyMap]
\* A permission file: absent, present but not readable as a list, or a list of users.
PermFile(state, users) == [state |-> state, users |-> users]
NoPermFiles == [allow |-> PermFile("absent", {}), deny |-> PermFile("absent", {})]

\* SaveTable: the lines of the file written for a table: three comment
\* lines, an empty line and entry.String() for every entry.
SaveTable(entries) ==
    <<<<"#">>, <<"#">>, <<"#">>, <<>>>> \o [i \in 1..Len(entries) |-> String(entries[i])]

\* The table files as incrontab writes them for the given tables.
SavedTables(tbls) ==
    [kind \in {"user", "system"} |-> [n \in DOMAIN tbls[kind] |-> SaveTable(tbls[kind][n])]]

\* The daemon before Initialize, with the given lines in the table files.
InitDaemonFiles(files, perms) ==
    /\ tableFiles = files
    /\ permFiles = perms
    /\ tables = NoTables
    /\ hd = [h \in H |-> IdleHandler]
    /\ sg = [pc |-> "none", sigChan |-> <<>>]
    /\ shutdown = FALSE
    /\ done = FALSE
    /\ mainPc = "new"

\* The daemon before Initialize, with table files saved from the given tables.
InitDaemon(tbls, perms) == InitDaemonFiles(SavedTables(tbls), perms)

\* LoadTable, the scan of the lines: the rules of the lines in their order.
RECURSIVE TableEntries(_)
TableEntries(parsed) ==
    IF parsed = <<>> THEN <<>>
    ELSE (IF Head(parsed).kind = "rule" THEN <<Head(parsed).entry>> ELSE <<>>)
            \o TableEntries(Tail(parsed))

\* LoadTable: an error for the first line that does not parse (line is its
\* number), or the table's entries.
FirstOf(bad) == CHOOSE i \in bad : \A j \in bad : i <= j
LoadParsed(parsed, bad) ==
    IF bad # {} THEN [err |-> TRUE, line |-> FirstOf(bad), entries |-> <<>>]
    ELSE [err |-> FALSE, line |-> 0, entries |-> TableEntries(parsed)]
BadLines(parsed) == {i \in DOMAIN parsed : parsed[i].kind = "error"}
ParseLines(lines) == [i \in 1..Len(lines) |-> ParseEntry(lines[i])]
LoadTableLenient(lines) ==
    [err |-> FALSE, line |-> 0, entries |-> TableEntries(ParseLines(lines))]
LoadTable(lines) == LoadParsed(ParseLines(lines), BadLines(ParseLines(lines)))

\* LoadAllUserTables / LoadAllSystemTables: the tables of the files that
\* load without an error, without the empty ones.
KeepLoaded(loaded) ==
    [n \in {m \in DOMAIN loaded : ~ loaded[m].err /\ loaded[m].entries # <<>>}
        |-> loaded[n].entries]
LoadAllTables(files) == KeepLoaded([n \in DOMAIN files |-> LoadTable(files[n])])

\* The entries of the tables in the order the two range loops of LoadTables
\* or handleEvent visit them: order lists the tables, each [kind, name].
RECURSIVE EntriesInOrder(_, _)
EntriesInOrder(tbls, order) ==
    IF order = <<>> THEN <<>>
    ELSE tbls[Head(order).kind][Head(order).name] \o EntriesInOrder(tbls, Tail(order))

\* The orders in which the user tables and then the system tables are visited
\* (each map in any order).
TableOrders(tbls) ==
    {[i \in 1..Len(uo) |-> [kind |-> "user", name |-> uo[i]]]
       \o [i \in 1..Len(so) |-> [kind |-> "system", name |-> so[i]]] :
     uo \in Orderings(DOMAIN tbls.user), so \in Orderings(DOMAIN tbls.system)}

\* d.watcher.AddWatch(&entry) for each entry in turn; errors are logged.
RECURSIVE AddWatches(_, _)
AddWatches(st, entries) ==
    IF entries = <<>> THEN st
    ELSE AddWatches(AddWatchResult(st, ValPtr(Head(entries)), NoFail).st, Tail(entries))

\* d.mu.Lock() returns: no handleEvent holds the read lock.
TableWriteLockable == \A h \in H : hd[h].pc # "scan"

\* d.mu.RLock() taken without regard to a writer.
TableReadLockUnguarded == TRUE

\* d.mu.RLock() returns: the LoadTables of a reload does not hold the lock
\* (the one of Initialize runs before the first handleEvent exists).
TableReadLockable == sg.pc # "loading"

\* LoadTables after its Lock: the tables are replaced by the ones loaded from
\* the files and a watch is added for every entry.
LoadTablesBody ==
    /\ LET loaded == [user |-> LoadAllTables(tableFiles.user),
                      system |-> LoadAllTables(tableFiles.system)]
       IN  /\ tables' = loaded
           /\ \E order \in TableOrders(loaded) :
                 Install(AddWatches(WatchState, EntriesInOrder(loaded, order)))
    /\ UNCHANGED <<fs, nextIno, fsOps, fdOpen, wDone, events, errors>>

\* Daemon.LoadTables as one step, under d.mu.Lock.
LoadTables ==
    /\ TableWriteLockable
    /\ LoadTablesBody

\* Daemon.Initialize, then go handleSignals and the entry into Run.
Initialize ==
    /\ mainPc = "new"
    /\ LoadTables
    /\ wRunning' = TRUE
    /\ rd' = [pc |-> "select", buf |-> <<>>]
    /\ sg' = [sg EXCEPT !.pc = "recv"]
    /\ mainPc' = "run"
    /\ UNCHANGED <<execVars, envVars, hd, shutdown, done>>

\* Watcher.Stop, under w.mu.Lock: the watches are removed from the kernel, the
\* descriptor and the channels are closed; the two indices stay as they are.
\* A read loop that is blocked in unix.Read is woken by the IN_IGNORED records
\* of the removed watches and goes on to parse them once Stop has returned; one
\* that has not entered the read yet finds the descriptor closed.
WatcherStop ==
    IF ~ wRunning
    THEN UNCHANGED <<kernelVars, watchVars>>
    ELSE /\ wRunning' = FALSE
         /\ wDone' = TRUE
         /\ kWatch' = [wd \in (DOMAIN kWatch) \ (DOMAIN watches) |-> kWatch[wd]]
         /\ kQueue' = <<>>
         /\ fdOpen' = FALSE
         /\ events' = [events EXCEPT !.closed = TRUE]
         /\ errors' = [errors EXCEPT !.closed = TRUE]
         /\ \/ rd' = rd
            \/ /\ rd.pc = "read"
               /\ kQueue \o IgnoredFor((DOMAIN kWatch) \cap (DOMAIN watches)) # <<>>
               /\ rd' = [pc |-> "parse",
                         buf |-> kQueue \o IgnoredFor((DOMAIN kWatch) \cap (DOMAIN watches))]
         /\ UNCHANGED <<fs, nextIno, fsOps, kNextWd, watches, pathWatches>>

\* Run: case event := <-d.watcher.Events(): go d.handleEvent(event)
RunReceiveEvent ==
    /\ mainPc = "run"
    /\ events.buf # <<>>
    /\ \E h \in H :
          /\ hd[h].pc = "idle"
          /\ \A j \in H : hd[j].pc = "idle" => h <= j
          /\ hd' = [hd EXCEPT ![h] = [IdleHandler EXCEPT !.pc = "rlock", !.event = Head(events.buf)]]
    /\ events' = [events EXCEPT !.buf = Tail(@)]
    /\ UNCHANGED <<execVars, kernelVars, envVars, tables, sg, shutdown, done, mainPc,
                   watches, pathWatches, wRunning, wDone, errors, rd>>

\* Run: case err := <-d.watcher.Errors(): the error is logged.
RunReceiveError ==
    /\ mainPc = "run"
    /\ errors.buf # <<>>
    /\ errors' = [errors EXCEPT !.buf = Tail(@)]
    /\ UNCHANGED <<execVars, kernelVars, envVars, daemonVars,
                   watches, pathWatches, wRunning, wDone, events, rd>>

\* Run: case <-d.shutdown: return d.Stop(), up to the call of WaitForAllCommands.
RunShutdown ==
    /\ mainPc = "run"
    /\ shutdown
    /\ WatcherStop
    /\ mainPc' = "waitall"
    /\ UNCHANGED <<execVars, envVars, tables, hd, sg, shutdown, done>>

\* WaitForAllCommands, one pass of its loop that gets the read lock: nil when
\* the count is zero and Stop closes d.done; with commands counted the loop
\* sleeps and looks again until the deadline, where it returns the timeout.
WaitForAllCommands ==
    /\ mainPc = "waitall"
    /\ MuRLockFree(ceMu)
    /\ IF currentCount = 0
       THEN done' = TRUE /\ mainPc' = "exited"
       ELSE done' = done /\ mainPc' = "killall"
    /\ UNCHANGED <<execVars, kernelVars, watchVars, envVars, tables, hd, sg, shutdown>>

\* KillAllCommands after the timeout, then close(d.done): the ids are read
\* under the read lock, each child is killed (runCommand then reports it).
KillAllCommands ==
    /\ mainPc = "killall"
    /\ MuRLockFree(ceMu)
    /\ done' = TRUE
    /\ mainPc' = "exited"
    /\ UNCHANGED <<execVars, kernelVars, watchVars, envVars, tables, hd, sg, shutdown>>

\* handleEvent: d.mu.RLock() and the start of the range over d.userTables.
HandleEventRLock(h) ==
    /\ hd[h].pc = "rlock"
    /\ TableReadLockable
    /\ \E order \in TableOrders(tables) :
          hd' = [hd EXCEPT ![h].pc = IF order = <<>> THEN "done" ELSE "scan",
                           ![h].todo = order, ![h].k = 1, ![h].i = 1]
    /\ UNCHANGED <<execVars, kernelVars, watchVars, envVars, tables, sg, shutdown, done, mainPc>>

\* The entry the scan of handler h is at, its table and the table's owner.
ScanTable(h) == hd[h].todo[hd[h].k]
ScanEntry(h) == tables[ScanTable(h).kind][ScanTable(h).name][hd[h].i]

\* The gate passed without a look at the permission files.
GateSkipped(username) == TRUE

\* allowed, err := CheckUserPermission(username): the match goes on only when
\* err is nil and allowed is true.
GateAllows(username) ==
    CheckUserPermission(username).allowed /\ ~ CheckUserPermission(username).err

\* handleEvent, one iteration of the inner loop: the loop variable takes the
\* entry; on a match (and, for a user table, a passed gate) executeCommand is
\* started with the address of the loop variable.  After the last entry of the
\* last table the deferred RUnlock runs.
HandleEventStep(h) ==
    /\ hd[h].pc = "scan"
    /\ LET t == ScanTable(h)
           entry == ScanEntry(h)
           k == hd[h].k
           i == hd[h].i
           cells1 == IF i = 1 THEN Append(hd[h].cells, entry)
                     ELSE [hd[h].cells EXCEPT ![k] = entry]
           more == i < Len(tables[t.kind][t.name])
           last == ~ more /\ k = Len(hd[h].todo)
       IN  /\ hd' = [hd EXCEPT ![h].cells = cells1,
                               ![h].i = IF more THEN i + 1 ELSE 1,
                               ![h].k = IF more \/ last THEN k ELSE k + 1,
                               ![h].pc = IF last THEN "done" ELSE "scan"]
           /\ IF /\ eventMatches(entry, hd[h].event)
                 /\ t.kind = "user" => GateAllows(t.name)
              THEN /\ \E g \in G : ex[g].pc = "idle"
                   /\ CallExecute(NextCall, LoopPtr(h, k), hd[h].event,
                                  IF t.kind = "user" THEN t.name ELSE "root")
              ELSE UNCHANGED ex
    /\ UNCHANGED <<ceMu, runningCommands, currentCount, maxConcurrent, child, resultChan,
                   kernelVars, watchVars, envVars, tables, sg, shutdown, done, mainPc>>

\* Bound on the signals and edits the environment makes in a behaviour.
MaxEnvOps == 2
Signals == {"SIGHUP", "SIGTERM", "SIGINT"}

\* A signal is delivered: signal.Notify puts it in sigChan, or drops it when
\* the one slot is taken.
SignalArrives(s) ==
    /\ sg.pc # "none"
    /\ apiCalls < MaxEnvOps
    /\ apiCalls' = apiCalls + 1
    /\ sg' = IF Len(sg.sigChan) < 1 THEN [sg EXCEPT !.sigChan = Append(@, s)] ELSE sg
    /\ UNCHANGED <<execVars, kernelVars, watchVars, tableFiles, permFiles,
                   tables, hd, shutdown, done, mainPc>>

\* handleSignals going back to its loop after a terminate signal.
HandleSignalLooping ==
    /\ sg.pc = "recv"
    /\ sg.sigChan # <<>>
    /\ IF Head(sg.sigChan) = "SIGHUP"
       THEN sg' = [pc |-> "reload", sigChan |-> Tail(sg.sigChan)] /\ shutdown' = shutdown
       ELSE sg' = [pc |-> "recv", sigChan |-> Tail(sg.sigChan)] /\ shutdown' = TRUE
    /\ UNCHANGED <<execVars, kernelVars, watchVars, envVars, tables, hd, done, mainPc>>

\* handleSignals: one signal taken from sigChan.
HandleSignal ==
    /\ sg.pc = "recv"
    /\ sg.sigChan # <<>>
    /\ IF Head(sg.sigChan) = "SIGHUP"
       THEN sg' = [pc |-> "reload", sigChan |-> Tail(sg.sigChan)] /\ shutdown' = shutdown
       ELSE sg' = [pc |-> "exited", sigChan |-> Tail(sg.sigChan)] /\ shutdown' = TRUE
    /\ UNCHANGED <<execVars, kernelVars, watchVars, envVars, tables, hd, done, mainPc>>

\* handleSignals: d.LoadTables() for SIGHUP, its d.mu.Lock() returning.
ReloadTablesLock ==
    /\ sg.pc = "reload"
    /\ TableWriteLockable
    /\ sg' = [sg EXCEPT !.pc = "loading"]
    /\ UNCHANGED <<execVars, kernelVars, watchVars, envVars, tables, hd, shutdown, done, mainPc>>

\* handleSignals: the body of d.LoadTables() for SIGHUP, all of it under the
\* write lock, and the deferred Unlock.  The tables are read nowhere but in
\* LoadTables and in handleEvent, which takes the read lock first.
ReloadTables ==
    /\ sg.pc = "loading"
    /\ LoadTablesBody
    /\ sg' = [sg EXCEPT !.pc = "recv"]
    /\ UNCHANGED <<execVars, envVars, wRunning, rd, hd, shutdown, done, mainPc>>

\* The table files are rewritten (incrontab, an editor).
EditTables(versions) ==
    /\ apiCalls < MaxEnvOps
    /\ apiCalls' = apiCalls + 1
    /\ \E files \in versions : files # tableFiles /\ tableFiles' = files
    /\ UNCHANGED <<execVars, kernelVars, watchVars, daemonVars, permFiles>>

\* The allow and deny files are rewritten.
EditPermissions(choices) ==
    /\ apiCalls < MaxEnvOps
    /\ apiCalls' = apiCalls + 1
    /\ \E perms \in choices : perms # permFiles /\ permFiles' = perms
    /\ UNCHANGED <<execVars, kernelVars, watchVars, daemonVars, tableFiles>>

(***************************************************************************)
(* The executor on its own: any callers, any entries.                      *)
(***************************************************************************)
InitExec ==
    /\ InitKernel /\ InitWatcher /\ InitDaemon(NoTables, NoPermFiles) /\ apiCalls = 0
    /\ \E max \in 0..MaxCap : InitExecutor(max)

ExecCall ==
    \E c \in ExecCalls :
        /\ \E g \in G : ex[g].pc = "idle"
        /\ CallExecute(NextCall, ValPtr(c[1]), c[2], c[3])
        /\ UNCHANGED <<ceMu, runningCommands, currentCount, maxConcurrent, child, resultChan>>

ExecStep ==
    \E g \in G :
        \/ ExecuteLock(g)
        \/ ExecuteCheck(g)
        \/ ExecuteStart(g)
        \/ ExecuteReceive(g)
        \/ \E kind \in ResultKinds : RunCommand(g, kind)

ExecConfigure == \E max \in 0..MaxCap : SetMaxConcurrent(max)

NextExec ==
    (ExecCall \/ ExecStep \/ ExecConfigure)
        /\ UNCHANGED <<kernelVars, watchVars, envVars, daemonVars>>

SpecExec == InitExec /\ [][NextExec]_vars

(***************************************************************************)
(* The watcher on its own: any sequence of calls of its interface, with    *)
(* the read loop running and the watched tree changing.                    *)
(***************************************************************************)
PathDSlash == <<"/", "d", "/">>
PathGlob == <<"/", "d", "/", "*">>

WatchEntries ==
    {EntryD,
     Entry(PathD, InCreate, CmdRun, TRUE, TRUE, TRUE),
     Entry(PathDS, InCreate, CmdRun, TRUE, TRUE, FALSE),
     Entry(PathDSlash, BitOr(InCreate, InDelete), CmdRun, TRUE, FALSE, FALSE),
     Entry(PathGlob, InCreate, CmdRun, TRUE, TRUE, FALSE)}

\* Bound on the calls of AddWatch and RemoveWatch in a behaviour.
MaxWatchCalls == 3

InitWatch ==
    /\ InitKernel /\ InitWatcher /\ InitExecutor(defaultMaxConcurrent) /\ apiCalls = 0
    /\ InitDaemon(NoTables, NoPermFiles)

WatchCall ==
    /\ apiCalls < MaxWatchCalls
    /\ apiCalls' = apiCalls + 1
    /\ UNCHANGED <<tableFiles, permFiles>>
    /\ \/ \E e \in WatchEntries, f \in WatchFailures : AddWatch(ValPtr(e), f)
       \/ \E e \in WatchEntries : AddWatchRootRemoved(ValPtr(e))
       \/ \E e \in WatchEntries : RemoveWatch(e.Path)

NextWatch ==
    \/ WatchCall /\ UNCHANGED <<execVars, daemonVars>>
    \/ (Start \/ ReadLoopStep) /\ UNCHANGED <<execVars, envVars, daemonVars>>
    \/ FsStep /\ UNCHANGED <<watchVars, execVars, envVars, daemonVars>>

SpecWatch == InitWatch /\ [][NextWatch]_vars

(***************************************************************************)
(* The dispatcher with the executor: the daemon after Initialize, with any *)
(* of the events the watcher can deliver arriving on its channel.          *)
(***************************************************************************)
PathDotGlob == <<"/", ".", "/", "*">>
RuleGlob == Entry(PathGlob, InCreate, CmdName, FALSE, FALSE, FALSE)
RuleDot == Entry(PathDotGlob, BitOr(InCreate, InDelete), CmdRun, TRUE, FALSE, FALSE)
RuleDS == Entry(PathDS, InCreate, CmdName, FALSE, FALSE, FALSE)
RuleDSys == Entry(PathD, BitOr(InCreate, InDelete), CmdRun, TRUE, FALSE, FALSE)
EventCreateSF == InotifyEvent(PathDS, NameF, PathDS \o <<"/">> \o NameF, InCreate)

DispatchTables ==
    {[user |-> ("alice" :> <<RuleGlob, EntryD>>), system |-> ("sys" :> <<RuleDSys>>)],
     [user |-> ("alice" :> <<RuleDot>>) @@ ("bob" :> <<RuleDS>>), system |-> EmptyMap]}

DispatchEvents == {EventCreateF, EventCreateSF, EventDeleteSelf}

PermChoices ==
    {NoPermFiles,
     [allow |-> PermFile("listed", {"alice"}), deny |-> PermFile("absent", {})],
     [allow |-> PermFile("absent", {}), deny |-> PermFile("listed", {"alice"})],
     [allow |-> PermFile("unreadable", {}), deny |-> PermFile("listed", {"bob"})]}

\* The watcher hands an event to w.events.
DeliverEvent(event) ==
    /\ mainPc = "run"
    /\ apiCalls < MaxEnvOps
    /\ apiCalls' = apiCalls + 1
    /\ Len(events.buf) < EventChanCap
    /\ events' = [events EXCEPT !.buf = Append(@, event)]
    /\ UNCHANGED <<execVars, kernelVars, daemonVars, tableFiles, permFiles,
                   watches, pathWatches, wRunning, wDone, errors, rd>>

InitDispatch ==
    /\ InitKernel /\ InitWatcher /\ InitExecutor(defaultMaxConcurrent) /\ apiCalls = 0
    /\ \E files \in DispatchTables, perms \in PermChoices : InitDaemon(files, perms)

NextDispatch ==
    \/ Initialize
    \/ \E event \in DispatchEvents : DeliverEvent(event)
    \/ EditPermissions(PermChoices)
    \/ RunReceiveEvent
    \/ \E h \in H : HandleEventRLock(h)
    \/ \E h \in H : HandleEventStep(h)
    \/ ExecStep /\ UNCHANGED <<kernelVars, watchVars, envVars, daemonVars>>

SpecDispatch == InitDispatch /\ [][NextDispatch]_vars

(***************************************************************************)
(* The daemon: main, the watcher's read loop, the handlers, the executor,  *)
(* the signal handler, and an environment that changes the watched tree,   *)
(* rewrites the table files and sends signals.                             *)
(***************************************************************************)
RuleD == Entry(PathD, InCreate, CmdName, FALSE, FALSE, FALSE)
TableVersions ==
    {[user |-> ("alice" :> <<RuleDS>>), system |-> EmptyMap],
     [user |-> ("alice" :> <<RuleD>>), system |-> EmptyMap]}

Init ==
    /\ InitKernel /\ InitWatcher /\ InitExecutor(defaultMaxConcurrent) /\ apiCalls = 0
    /\ InitDaemon([user |-> ("alice" :> <<RuleDS>>), system |-> EmptyMap], NoPermFiles)

Next ==
    \/ Initialize
    \/ FsStep /\ UNCHANGED <<execVars, watchVars, envVars, daemonVars>>
    \/ ReadLoopStep /\ UNCHANGED <<execVars, envVars, daemonVars>>
    \/ RunReceiveEvent
    \/ RunReceiveError
    \/ RunShutdown
    \/ WaitForAllCommands
    \/ \E h \in H : HandleEventRLock(h)
    \/ \E h \in H : HandleEventStep(h)
    \/ ExecStep /\ UNCHANGED <<kernelVars, watchVars, envVars, daemonVars>>
    \/ \E s \in Signals : SignalArrives(s)
    \/ HandleSignal
    \/ ReloadTablesLock
    \/ ReloadTables
    \/ EditTables({SavedTables(v) : v \in TableVersions})

Spec == Init /\ [][Next]_vars

(***************************************************************************)
(* Properties.                                                             *)
(***************************************************************************)
SamePathAndUser(g, h) ==
    /\ Deref(ex[h].entry).Path = Deref(ex[g].entry).Path
    /\ ex[h].user = ex[g].user

\* C2: in every reachable state of the executor the number of running
\* commands, as currentCount and as the size of runningCommands, is at most
\* maxConcurrent.
C2_CapacityNeverExceeded ==
    /\ currentCount <= maxConcurrent
    /\ Cardinality(runningCommands) <= maxConcurrent

\* The executor is full while a further Execute call is waiting to be admitted.
C2_Witness ==
    /\ maxConcurrent > 0
    /\ currentCount = maxConcurrent
    /\ \E g \in G : ex[g].pc = "lock"

\* C3: whenever Execute inserts the record of a call whose entry has NoLoop
\* set, no other record of the same path and user is in runningCommands, and
\* what the capacity check found still holds at the insertion (check and
\* insertion are one atomic step for every other call).
C3_InterlockAtAdmission ==
    [][\A g \in G :
          (g \notin runningCommands /\ g \in runningCommands' /\ Deref(ex[g].entry).NoLoop)
            => /\ ~ \E h \in runningCommands : h # g /\ SamePathAndUser(g, h)
               /\ currentCount < maxConcurrent]_vars

\* A NoLoop call is running while a second call of the same path and user
\* has entered Execute.
C3_Witness ==
    \E g \in runningCommands, h \in G :
        /\ Deref(ex[g].entry).NoLoop
        /\ ex[h].pc = "lock"
        /\ Deref(ex[h].entry).NoLoop
        /\ SamePathAndUser(g, h)

\* C4: once the result of an admitted command has been collected, its record
\* is removed from runningCommands and the count decremented: when no
\* goroutine of the executor can take a further step, no call whose result
\* was collected still has its record, and the count is that of the calls
\* still waiting for their result.
C4_RecordRemovedAfterResult ==
    (\A g \in G : ~ ExecRunnable(g)) =>
        /\ \A g \in G : ex[g].pc = "relock" => g \notin runningCommands
        /\ currentCount = Cardinality({g \in G : ex[g].pc = "wait"})

\* C7: the watcher's two indices are mutually consistent in every reachable
\* state: pathWatches[p] = wd implies watches[wd].Path = p, every wd of
\* watches has pathWatches[watches[wd].Path] = wd, and both maps have the same
\* number of entries.
C7_IndicesConsistent ==
    /\ \A p \in DOMAIN pathWatches :
          pathWatches[p] \in DOMAIN watches /\ watches[pathWatches[p]].Path = p
    /\ \A wd \in DOMAIN watches :
          watches[wd].Path \in DOMAIN pathWatches /\ pathWatches[watches[wd].Path] = wd
    /\ Cardinality(DOMAIN pathWatches) = Cardinality(DOMAIN watches)
\* C1: every Execute call started for a match of a delivered event (owner
\* permitted), with the executor below capacity and no interlock applying,
\* gets its child started and its result collected, for every such event of a
\* run: no such call is left waiting for the executor's mutex behind a holder
\* that never releases it.
C1_EveryMatchedCommandRuns ==
    \A g \in G :
        (ex[g].pc = "lock" /\ currentCount < maxConcurrent /\ ~ LoopConflict(g))
            => ~ \E h \in G : SelfDeadlocked(h)

\* C5: after a terminate signal Stop does not block indefinitely in
\* WaitForAllCommands and closes d.done, also when commands were executed
\* before: main never waits in WaitForAllCommands for a mutex that is never
\* released.
C5_ShutdownTerminates ==
    ~ (mainPc = "waitall" /\ \E g \in G : SelfDeadlocked(g))

\* The paths of the rules of the loaded tables.
RulePaths(tbls) ==
    {tbls[kind][n][i].Path : <<kind, n, i>> \in
        {x \in {"user", "system"} \X {"alice", "bob", "sys"} \X (1..2) :
            x[2] \in DOMAIN tbls[x[1]] /\ x[3] \in DOMAIN tbls[x[1]][x[2]]}}

\* C6: when the LoadTables of a SIGHUP completes, the path index holds the
\* path of every rule of the loaded tables whose path exists, and no longer
\* holds the path of a rule that the previous load had and this one has not.
C6_ReloadRebuildsWatchSet ==
    [][(sg.pc = "loading" /\ sg'.pc = "recv") =>
          /\ \A p \in RulePaths(tables') : DirExists(p) => p \in DOMAIN pathWatches'
          /\ \A p \in RulePaths(tables) \ RulePaths(tables') : p \notin DOMAIN pathWatches'
      ]_vars

\* C8: when one event matches two rules that the interlock does not exclude
\* and the pool is below capacity, the Execute call of one match does not wait
\* for the child of the other match to exit.
C8_MatchesDoNotSerialize ==
    ~ \E g, h \in G :
        /\ g # h
        /\ ex[g].entry.kind = "loop" /\ ex[h].entry.kind = "loop"
        /\ ex[g].entry.h = ex[h].entry.h
        /\ ex[g].pc = "lock"
        /\ ceMu.w = h
        /\ child[h] = "running"
        /\ currentCount < maxConcurrent
        /\ ~ LoopConflict(g)

\* The step is an iteration of handler h's scan; the calls it starts.
ScanStep(h) == hd[h].pc = "scan" /\ hd'[h] # hd[h]
Started == {g \in G : ex[g].pc = "idle" /\ ex'[g].pc = "lock"}

\* C9: an Execute call for a user-table rule is started only in a scan step
\* in which CheckUserPermission(owner) is allowed without error, and with the
\* owner as principal; a denied owner or a gate error starts none.  A matching
\* system-table rule is started with principal root whatever the gate says.
C9_PermissionGateAtDispatch ==
    [][/\ Started # {} => \E h \in H : ScanStep(h)
       /\ \A h \in H : ScanStep(h) =>
             IF ScanTable(h).kind = "user"
             THEN /\ Started # {} =>
                        /\ CheckUserPermission(ScanTable(h).name).allowed
                        /\ ~ CheckUserPermission(ScanTable(h).name).err
                  /\ \A g \in Started : ex'[g].user = ScanTable(h).name
             ELSE /\ eventMatches(ScanEntry(h), hd[h].event) => Started # {}
                  /\ \A g \in Started : ex'[g].user = "root"
      ]_vars

\* A handler has scanned the tables for an event that matches a rule of alice
\* and a system rule while the gate fails for every user: the system rule's
\* command was started as root, nothing was started for alice.
C9_Witness ==
    /\ CheckUserPermission("root").err
    /\ \E h \in H :
          /\ hd[h].pc = "done"
          /\ hd[h].event = EventCreateF
          /\ "sys" \in DOMAIN tables.system
          /\ \E i \in 1..Len(tables.user["alice"]) :
                eventMatches(tables.user["alice"][i], EventCreateF)
    /\ \E g \in G : ex[g].pc # "idle" /\ ex[g].user = "root"
    /\ \A g \in G : ex[g].user # "alice"

\* The match the dispatcher is to compute, read off the rule's path: "*" is
\* any run of characters, "." any one character, any other character itself.
RECURSIVE C10_Glob(_, _)
C10_Glob(p, s) ==
    IF p = <<>> THEN s = <<>>
    ELSE IF Head(p) = "*"
    THEN \E n \in 0..Len(s) : C10_Glob(Tail(p), SubSeq(s, n + 1, Len(s)))
    ELSE s # <<>> /\ Head(p) \in {".", Head(s)} /\ C10_Glob(Tail(p), Tail(s))

C10_PathMatches(p, s) == IF \E i \in 1..Len(p) : p[i] = "*" THEN C10_Glob(p, s) ELSE p = s

C10_RuleMatches(e, event) ==
    /\ C10_PathMatches(e.Path, event.WatchDir) \/ C10_PathMatches(e.Path, event.Path)
    /\ \E b \in 0..30 : (e.Mask \div 2^b) % 2 = 1 /\ (event.Mask \div 2^b) % 2 = 1

\* C10 as stated: a scan step starts an execution for its rule if and only if
\* the rule's path matches the event's WatchDir or Path and the masks meet.
C10_DispatcherMatchingAsStated ==
    [][\A h \in H : ScanStep(h) =>
          (Started # {} <=> C10_RuleMatches(ScanEntry(h), hd[h].event))]_vars

\* C10: a scan step starts an execution for its rule if and only if the
\* rule's path matches the event's WatchDir or Path (equality without "*",
\* the anchored expression with ".*" for each "*" otherwise), the masks have a
\* bit in common and, for a rule of a user table, the permission gate allows
\* the table's owner without error.
C10_DispatcherMatching ==
    [][\A h \in H : ScanStep(h) =>
          (Started # {} <=>
              /\ C10_RuleMatches(ScanEntry(h), hd[h].event)
              /\ ScanTable(h).kind = "user" =>
                    /\ CheckUserPermission(ScanTable(h).name).allowed
                    /\ ~ CheckUserPermission(ScanTable(h).name).err)]_vars

\* A handler has scanned three rules for an event in a subdirectory: the rule
\* with "*" matched through the event's full path and was started, the two
\* rules on the parent directory did not match.
C10_Witness ==
    /\ "sys" \in DOMAIN tables.system
    /\ \E h \in H :
          /\ hd[h].pc = "done"
          /\ hd[h].event = EventCreateSF
          /\ \E g \in G : ex[g].pc # "idle" /\ ex[g].entry = LoopPtr(h, 1)
          /\ \A g \in G : ex[g].pc # "idle" => ex[g].entry = LoopPtr(h, 1)

\* C11: an Execute call issued while currentCount >= maxConcurrent fails at
\* once, without waiting for a running command: such a call is never held up
\* at the executor's mutex.
C11_AtCapacityFailsImmediately ==
    \A g \in G : (ex[g].pc = "lock" /\ AtCapacity) => ExecuteMayLock(g)

\* C12: an Execute call for a NoLoop entry issued while a command of the same
\* path and user is in runningCommands is refused with the loop-prevention
\* error, neither queued nor run later: such a call is never held up at the
\* executor's mutex.
C12_SelfTriggerRefused ==
    \A g \in G : (ex[g].pc = "lock" /\ LoopConflict(g)) => ExecuteMayLock(g)

C14_DeliveryNeverBlocks ==
    [][(/\ rd.pc = "parse" /\ rd.buf # <<>>
        /\ ~ events.closed /\ Len(events.buf) = EventChanCap)
          => /\ ENABLED ParseEvent
             /\ rd' # rd =>
                   /\ events' = events
                   /\ \/ rd' = [rd EXCEPT !.buf = Tail(@)]
                      \/ rd' = [rd EXCEPT !.pc = "dircreate"]
      ]_vars

\* The channel is full and the read loop has dropped an event: it is past a
\* record of a registered watch with records still to parse.
C14_Witness ==
    /\ Len(events.buf) = EventChanCap
    /\ ~ events.closed
    /\ rd.pc = "parse"
    /\ rd.buf # <<>>
    /\ CreateEvent(Head(rd.buf)) # NoEvent

\* C15: in no reachable state is a reload (LoadTables called for SIGHUP) in
\* progress while Daemon.Stop runs, and no reload starts once shutdown has
\* been initiated: from the closing of d.shutdown on the signal goroutine has
\* left its loop, and no step enters or completes a reload.
C15_ShutdownReloadSerialized ==
    [][/\ (shutdown \/ mainPc \in {"waitall", "killall", "exited"}) => sg.pc = "exited"
       /\ shutdown => sg'.pc \notin {"reload", "loading"} /\ tables' = tables
      ]_vars

\* Shutdown has been initiated and a SIGHUP arrived after it.
C15_Witness == shutdown /\ sg.sigChan = <<"SIGHUP">> /\ mainPc \in {"waitall", "exited"}

\* C16: once Daemon.Stop has been entered no record is added to
\* runningCommands, also not by handlers and executeCommand goroutines that
\* were started before the watcher was stopped.
C16_NoAdmissionAfterShutdown ==
    [][(mainPc \in {"waitall", "killall", "exited"})
          => (\A g \in G : g \in runningCommands' => g \in runningCommands)]_vars

\* C17: a handleEvent scans a complete table set: it takes the read lock only
\* while no LoadTables is between its Lock and its Unlock,
\* it ranges over exactly the tables that are loaded, and while it scans the
\* tables do not change and no LoadTables is in progress.
C17_AtomicTableSwap ==
    [][\A h \in H :
          /\ (hd[h].pc = "rlock" /\ hd'[h].pc # "rlock")
                => (sg.pc # "loading" /\ hd'[h].todo \in TableOrders(tables))
          /\ (hd[h].pc = "scan")
                => /\ sg.pc # "loading"
                   /\ tables' = tables
                   /\ hd[h].todo \in TableOrders(tables)]_vars

\* A handleEvent is in its scan of the old tables while a reload of rewritten
\* table files waits for the write lock.
C17_Witness ==
    \E h \in H :
        /\ hd[h].pc = "scan"
        /\ sg.pc = "reload"
        /\ LoadAllTables(tableFiles.user) # tables.user

\* C18: a call of Execute that is suspended in the wait for its child's
\* result (result := <-resultChan, nothing sent yet) does not hold the
\* executor mutex.
C18_NoLockWhileSuspended ==
    \A g \in G : (ex[g].pc = "wait" /\ resultChan[g] = NoResult) => ceMu.w # g

\* C19: in every state, AddWatch for a rule whose path is a key of the path
\* index returns the "already being watched" error, and a step that is this
\* call leaves the kernel's watches, its queue and both indices as they are.
C19_DuplicateRegistrationRefused ==
    [][\A e \in WatchEntries :
          (e.Path \in DOMAIN pathWatches)
             => /\ AddWatchResult(WatchState, ValPtr(e), NoFail).err = "already watched"
                /\ AddWatchResult(WatchState, ValPtr(e), NoFail).st = WatchState
                /\ (apiCalls' # apiCalls /\ AddWatch(ValPtr(e), NoFail))
                      => UNCHANGED <<kWatch, kNextWd, kQueue, watches, pathWatches>>]_vars

\* The path of a rule is in the path index as a subdirectory that a recursive
\* rule registered, and as the root of a rule, with calls of AddWatch left.
C19_Witness ==
    /\ apiCalls > 0
    /\ apiCalls < MaxWatchCalls
    /\ fdOpen
    /\ \E e \in WatchEntries :
          /\ e.Path \in DOMAIN pathWatches
          /\ pathWatches[e.Path] \in DOMAIN watches
          /\ watches[pathWatches[e.Path]].Entry = NoEntry
    /\ \E e \in WatchEntries :
          /\ e.Path \in DOMAIN pathWatches
          /\ pathWatches[e.Path] \in DOMAIN watches
          /\ watches[pathWatches[e.Path]].Entry = ValPtr(e)

\* C20: a call of AddWatch that returns an error leaves no entry for the
\* rule's path: when the root's inotify_add_watch fails the indices are as
\* before, and when the recursive setup fails after the root was installed
\* the root's path is in neither index and its watch is not in the kernel.
C20_RegistrationAtomic ==
    [][\A e \in WatchEntries :
          /\ \A f \in WatchFailures :
                LET r == AddWatchResult(WatchState, ValPtr(e), f)
                IN  /\ (r.err = "add failed") => (r.st = WatchState)
                    /\ (r.err = "recursive")
                          => /\ e.Path \notin DOMAIN r.st.pathWatches
                             /\ \A wd \in DOMAIN r.st.watches : r.st.watches[wd].Path # e.Path
          /\ (apiCalls' # apiCalls /\ AddWatchRootRemoved(ValPtr(e)))
                => /\ e.Path \notin DOMAIN pathWatches'
                   /\ \A wd \in DOMAIN watches' : watches'[wd].Path # e.Path]_vars

\* C21: a step of the read loop that handles a decoded IN_CREATE|IN_ISDIR
\* record leaves both indices with an entry for watch_dir/name that has the
\* parent's mask and DotDirs, Entry = nil and Recursive = true, when the
\* record's watch entry is recursive, the name is not a skipped dot name, the
\* new path is a directory and the kernel add succeeds; it leaves both indices
\* unchanged when the watch entry is not recursive or the name is a skipped
\* dot name.
C21_Autogrowth ==
    [][(rd.pc = "dircreate" /\ rd' # rd) =>
          LET wd == Head(rd.buf).wd
              name == Head(rd.buf).name
              info == watches[wd]
              newPath == JoinPath(info.Path, name)
              dotSkip == ~ info.DotDirs /\ name[1] = "."
          IN  (wd \in DOMAIN watches) =>
                 /\ (/\ info.Recursive
                     /\ ~ dotSkip
                     /\ DirExists(newPath)
                     /\ InotifyAddWatch(kWatch, kNextWd, newPath, info.Mask).ok)
                       => /\ newPath \in DOMAIN pathWatches'
                          /\ pathWatches'[newPath] \in DOMAIN watches'
                          /\ watches'[pathWatches'[newPath]] =
                                [Path |-> newPath, Mask |-> info.Mask, Entry |-> NoEntry,
                                 Recursive |-> TRUE, DotDirs |-> info.DotDirs]
                 /\ (~ info.Recursive \/ dotSkip)
                       => (watches' = watches /\ pathWatches' = pathWatches)]_vars

\* The read loop has delivered and handled the creation of a dot directory
\* under a recursive watch that excludes dot directories.
C21_Witness ==
    /\ rd.buf = <<>>
    /\ rd.pc \in {"parse", "select", "read"}
    /\ \E i \in 1..Len(events.buf) :
          events.buf[i].Name = <<".", "h">> /\ BitAnd(events.buf[i].Mask, InIsdir) # 0
    /\ DirExists(PathDH)
    /\ PathDH \notin DOMAIN pathWatches
    /\ PathD \in DOMAIN pathWatches
    /\ pathWatches[PathD] \in DOMAIN watches
    /\ watches[pathWatches[PathD]].Recursive
    /\ ~ watches[pathWatches[PathD]].DotDirs

(***************************************************************************)
(* The daemon without signals, with rules that watch /d and /d/s for       *)
(* removals: one rmdir of /d/s queues a record for each watch, and one     *)
(* read returns both.                                                      *)
(***************************************************************************)
RuleDChildren == Entry(PathD, BitOr(InCreate, InDelete), CmdRun, FALSE, FALSE, FALSE)
RuleDSSelf == Entry(PathDS, InDeleteSelf, CmdRun, FALSE, FALSE, FALSE)

InitBatch ==
    /\ InitKernel /\ InitWatcher /\ InitExecutor(defaultMaxConcurrent) /\ apiCalls = 0
    /\ InitDaemon([user |-> EmptyMap, system |-> ("sys" :> <<RuleDChildren, RuleDSSelf>>)],
                  NoPermFiles)

NextBatch ==
    \/ Initialize
    \/ FsStep /\ UNCHANGED <<execVars, watchVars, envVars, daemonVars>>
    \/ ReadLoopStep /\ UNCHANGED <<execVars, envVars, daemonVars>>
    \/ RunReceiveEvent
    \/ \E h \in H : HandleEventRLock(h)
    \/ \E h \in H : HandleEventStep(h)
    \/ ExecStep /\ UNCHANGED <<kernelVars, watchVars, envVars, daemonVars>>

SpecBatch == InitBatch /\ [][NextBatch]_vars

\* The event of the removal of s, as seen by the watch on /d and by the watch
\* on /d/s: the kernel queues them in this order in one rmdir.
IsChildDeleted(e) == e # NoEvent /\ e.WatchDir = PathD /\ BitAnd(e.Mask, InDelete) # 0
IsSelfDeleted(e) == e # NoEvent /\ e.WatchDir = PathDS /\ BitAnd(e.Mask, InDeleteSelf) # 0

\* C22: of two events of one read buffer that were both delivered, the
\* handleEvent of the later one has not started to match (is not past its
\* RLock) while the handleEvent of the earlier one has not.
C22_BatchOrder ==
    \A h, j \in H :
        (/\ IsChildDeleted(hd[h].event)
         /\ IsSelfDeleted(hd[j].event)
         /\ hd[j].pc \in {"scan", "done"})
            => hd[h].pc \in {"scan", "done"}

(***************************************************************************)
(* The dispatcher with every combination of the two permission files:      *)
(* each absent, unreadable, or listing any of the users.                   *)
(***************************************************************************)
GateUsers == {"alice", "bob"}
GateFiles ==
    {PermFile("absent", {}), PermFile("unreadable", {})}
        \cup {PermFile("listed", us) : us \in SUBSET GateUsers}
GateChoices == {[allow |-> a, deny |-> d] : a \in GateFiles, d \in GateFiles}

InitGate ==
    /\ InitKernel /\ InitWatcher /\ InitExecutor(defaultMaxConcurrent) /\ apiCalls = 0
    /\ \E perms \in GateChoices :
          InitDaemon([user |-> ("alice" :> <<EntryD>>) @@ ("bob" :> <<EntryD>>),
                      system |-> EmptyMap], perms)

NextGate ==
    \/ Initialize
    \/ DeliverEvent(EventCreateF)
    \/ EditPermissions(GateChoices)
    \/ RunReceiveEvent
    \/ \E h \in H : HandleEventRLock(h)
    \/ \E h \in H : HandleEventStep(h)
    \/ ExecStep /\ UNCHANGED <<kernelVars, watchVars, envVars, daemonVars>>

SpecGate == InitGate /\ [][NextGate]_vars

ValidateEntry(entry) ==
    IF entry.Path = <<>> \/ entry.Path[1] # "/" THEN "path must be absolute"
    ELSE IF TrimSpace(entry.Command) = <<>> THEN "command cannot be empty"
    ELSE IF entry.Mask = 0 THEN "event mask cannot be zero"
    ELSE ""

\* ValidateTable: the numbers of the entries ValidateEntry complains about.
ValidateTable(entries) == {i \in 1..Len(entries) : ValidateEntry(entries[i]) # ""}

\* eventcrontab, after the editor or for a given file: LoadTable, then
\* ValidateTable, then SaveTable over the user's table; nothing is written
\* when the text does not load or does not validate.
InstallResult(files, username, text) ==
    IF LoadTable(text).err \/ ValidateTable(LoadTable(text).entries) # {} THEN files
    ELSE [files EXCEPT !.user = MapPut(@, username, SaveTable(LoadTable(text).entries))]

InstallTable(username, texts) ==
    /\ apiCalls < MaxEnvOps
    /\ apiCalls' = apiCalls + 1
    /\ \E text \in texts : tableFiles' = InstallResult(tableFiles, username, text)
    /\ UNCHANGED <<execVars, kernelVars, watchVars, daemonVars, permFiles>>

\* The parts of the second field of a line: names, combined names, numerals
\* (with bits that have no name), options, and parts that are none of these.
MaxMaskParts == 2
MaskTokens ==
    {<<"IN_CREATE">>, <<"IN_DELETE">>, <<"IN_MOVE">>, <<"IN_CLOSE">>, <<"IN_ALL_EVENTS">>,
     <<"4", "0", "9", "5">>, <<"0", "x", "1", "0", "0">>, <<"4", "0", "9", "6">>,
     <<"0", "X", "1", "1", "F", "f">>, <<"0">>,
     <<"loopable", "=", "true">>, <<"loopable", "=", "false">>,
     <<"recursive", "=", "false">>, <<"dotdirs", "=", "true">>,
     <<"\t", "recursive", " ", "=", "true">>,
     <<"loopable", "=", "1">>, <<"IN_BOGUS">>, <<>>}
MaskTexts ==
    {JoinParts(parts, <<",">>) :
        parts \in UNION {[1..n -> MaskTokens] : n \in 1..MaxMaskParts}}

\* The lines of a table file: three fields separated by single spaces, and
\* the lines that are not of this form.
LinePaths == {PathD, <<"d">>}
FieldLines ==
    {JoinParts(<<path, mask, CmdRun>>, <<" ">>) : path \in LinePaths, mask \in MaskTexts}
LineCreate == PathD \o <<" ", "IN_CREATE", " ">> \o CmdRun
OddLines ==
    {<<>>, <<" ", "\t">>, <<"#", " ", "r">>, <<" ", "#">>,
     PathD, PathD \o <<" ", "IN_CREATE">>, PathD \o <<" ", "IN_CREATE", " ">>,
     <<" ">> \o LineCreate \o <<"\t", " ">>,
     PathD \o <<" ", " ", "IN_CREATE", " ">> \o CmdRun,
     PathD \o <<" ", "IN_CREATE", " ", " ", "r", " ", "$", "$", "@">>,
     PathD \o <<"\t", "IN_CREATE", " ">> \o CmdRun,
     PathD \o <<" ", "IN_CREATE", ",", "loopable", "=", "true", ",", "recursive", "=", "false",
                 ",", "dotdirs", "=", "true", " ">> \o CmdRun,
     PathD \o <<" ", "loopable", "=", "true", ",", "IN_CREATE", ",", "loopable", "=", "false",
                 " ">> \o CmdRun,
     PathD \o <<" ", "dotdirs", "=", "true", ",", "0", "x", "1", "0", "0", ",", "IN_DELETE",
                 ",", "recursive", "=", "false", " ">> \o CmdRun}
TableLines == FieldLines \cup OddLines

\* The user tables next to the system table that holds the line, and the
\* texts handed to the table tool.
LineBad == PathD \o <<" ", "IN_BOGUS", " ">> \o CmdRun
LineRelative == <<"d", " ", "IN_MOVE", ",", "0", "x", "1", "0", "0", "0", " ">> \o CmdRun
UserFiles ==
    {EmptyMap,
     "alice" :> <<LineCreate>>,
     ("alice" :> <<LineCreate, LineBad>>) @@ ("bob" :> <<<<"#">>, LineCreate>>)}
EditedTexts ==
    {<<LineRelative>>, <<LineBad>>, <<<<"#">>, LineCreate>>,
     <<PathDS \o <<" ", "IN_CLOSE", ",", "4", "0", "9", "6", ",", "dotdirs", "=", "true",
                   " ">> \o CmdRun>>}

InitTable ==
    /\ InitKernel /\ InitWatcher /\ InitExecutor(defaultMaxConcurrent) /\ apiCalls = 0
    /\ \E line \in TableLines, users \in UserFiles :
          InitDaemonFiles([user |-> users, system |-> ("sys" :> <<line>>)], NoPermFiles)

NextTable ==
    \/ Initialize
    \/ InstallTable("alice", EditedTexts)

SpecTable == InitTable /\ [][NextTable]_vars

\* The lines of the table files.
LinesOf(files) == UNION {{files[n][i] : i \in 1..Len(files[n])} : n \in DOMAIN files}
FileLines == LinesOf(tableFiles.user) \cup LinesOf(tableFiles.system)

\* C24: every line of a table file that ParseEntry accepts as a rule parses,
\* after the rule is rendered by String, to a rule with the same path, mask,
\* command and options.
C24_ParserIdempotent ==
    \A x \in FileLines :
        ParseEntry(x).kind = "rule"
            => ParseEntry(String(ParseEntry(x).entry)) = ParseEntry(x)

\* The table tool has written a table whose rule has named and unnamed bits
\* and an option, from a text that named them otherwise, and the daemon has
\* loaded the rule from the written line.
C24_Witness ==
    /\ mainPc = "run"
    /\ "alice" \in DOMAIN tables.user
    /\ \E i \in 1..Len(tables.user["alice"]) :
          LET entry == tables.user["alice"][i]
          IN  /\ MaskResidue(entry.Mask, 1) # 0
              /\ MaskParts(entry.Mask, 1) # <<>>
              /\ entry.DotDirs
              /\ String(entry) \in LinesOf(tableFiles.user)
              /\ \A text \in EditedTexts : String(entry) \notin LinesOf([t \in {1} |-> text])

\* The rules the daemon holds.
LoadedEntries ==
    UNION {{tables[kind][n][i] : i \in 1..Len(tables[kind][n])} :
              <<kind, n>> \in ({"user"} \X DOMAIN tables.user)
                                \cup ({"system"} \X DOMAIN tables.system)}

\* C25: every rule the daemon has loaded from a table file has a mask other
\* than zero, a path that begins with "/" and a command that is not empty
\* after trimming; a system table with a line that has a relative path, a
\* zero mask or an empty command is not among the loaded tables.
C25_LoadedRulesValid ==
    /\ \A entry \in LoadedEntries :
          /\ entry.Mask # 0
          /\ entry.Path # <<>> /\ entry.Path[1] = "/"
          /\ TrimSpace(entry.Command) # <<>>
    /\ mainPc = "run"
          => \A n \in DOMAIN tableFiles.system :
                (\E x \in LinesOf([t \in {n} |-> tableFiles.system[n]]) :
                    /\ ParseEntry(x).kind = "rule"
                    /\ ValidateEntry(ParseEntry(x).entry) # "")
                    => n \notin DOMAIN tables.system

(***************************************************************************)
(* The executor run on command templates of every form, one call at a time.*)
(***************************************************************************)
MaxTemplateLen == 3
TemplateChars == {"$", "@", "#", "r"}
Templates ==
    UNION {[1..n -> TemplateChars] : n \in 1..MaxTemplateLen}
        \cup {<<"$", "$", "%">>, <<"$", "$", "&">>, <<"r", " ", "$", "%", " ", "$", "&">>}

\* An event whose mask has no bit with a name.
EventUnnamed == InotifyEvent(PathD, NameF, PathD \o <<"/">> \o NameF, 4096)

ExpandCall ==
    /\ \A g \in G : ex[g].pc = "idle"
    /\ \E template \in Templates, event \in {EventCreateF, EventDeleteSelf, EventUnnamed} :
          CallExecute(NextCall, ValPtr(Entry(PathD, InAllEvents, template, TRUE, TRUE, FALSE)),
                      event, "alice")
    /\ UNCHANGED <<ceMu, runningCommands, currentCount, maxConcurrent, child, resultChan>>

InitExpand ==
    /\ InitKernel /\ InitWatcher /\ InitDaemon(NoTables, NoPermFiles) /\ apiCalls = 0
    /\ InitExecutor(defaultMaxConcurrent)

NextExpand == (ExpandCall \/ ExecStep) /\ UNCHANGED <<kernelVars, watchVars, envVars, daemonVars>>

SpecExpand == InitExpand /\ [][NextExpand]_vars

\* The expansion in one pass from left to right: "$" followed by one of
\* "$", "@", "#", "%", "&" is replaced, and what was written in its place is
\* not looked at again.
Wildcard(c, watchPath, filename, maskText, eventMask) ==
    IF c = "$" THEN <<"$">>
    ELSE IF c = "@" THEN watchPath
    ELSE IF c = "#" THEN filename
    ELSE IF c = "%" THEN maskText
    ELSE <<ToString(eventMask)>>

RECURSIVE ExpandSinglePass(_, _, _, _, _)
ExpandSinglePass(command, watchPath, filename, maskText, eventMask) ==
    IF command = <<>> THEN <<>>
    ELSE IF Len(command) >= 2 /\ command[1] = "$" /\ command[2] \in {"$", "@", "#", "%", "&"}
    THEN Wildcard(command[2], watchPath, filename, maskText, eventMask)
            \o ExpandSinglePass(SubSeq(command, 3, Len(command)),
                                watchPath, filename, maskText, eventMask)
    ELSE <<command[1]>>
            \o ExpandSinglePass(Tail(command), watchPath, filename, maskText, eventMask)

\* C26: the command a call of Execute has started is the one-pass expansion of
\* the rule's template: a "$" written for "$$" takes part in no substitution.
C26_SinglePassExpansion ==
    \A g \in G :
        ex[g].pc \in {"wait", "relock", "returned"}
            => \A text \in EventMaskTexts(ex[g].event.Mask) :
                  ExpandCommand(Deref(ex[g].entry).Command, ex[g].event.WatchDir,
                                ex[g].event.Name, text, ex[g].event.Mask)
                    = ExpandSinglePass(Deref(ex[g].entry).Command, ex[g].event.WatchDir,
                                       ex[g].event.Name, text, ex[g].event.Mask)

\* The numbers of the lines of a table file that ParseEntry refuses.
RefusedLines(lines) == {i \in 1..Len(lines) : ParseEntry(lines[i]).kind = "error"}

\* C27: in the step in which the daemon loads the tables, a table file with a
\* line that does not parse gives an error of LoadTable naming its first such
\* line and is not among the loaded tables, whatever its other lines are;
\* every other file that holds a rule is loaded with the rules of its lines,
\* and every one of these rules whose path is a directory is in the path index.
C27_TableLoadIsolation ==
    [][(mainPc = "new" /\ mainPc' = "run") =>
          \A kind \in {"user", "system"} : \A n \in DOMAIN tableFiles[kind] :
              LET lines == tableFiles[kind][n]
                  t == LoadTable(lines)
              IN  IF RefusedLines(lines) # {}
                  THEN /\ n \notin DOMAIN tables'[kind]
                       /\ t.err
                       /\ t.line \in RefusedLines(lines)
                       /\ \A i \in RefusedLines(lines) : t.line <= i
                  ELSE /\ ~ t.err
                       /\ t.entries # <<>> =>
                            /\ n \in DOMAIN tables'[kind]
                            /\ tables'[kind][n] = t.entries
                            /\ \A i \in 1..Len(t.entries) :
                                  DirExists(t.entries[i].Path)
                                      => t.entries[i].Path \in DOMAIN pathWatches']_vars

\* The daemon has loaded the tables: alice's file has a rule and then a line
\* that does not parse and is not loaded, while bob's table and the system
\* table are loaded and their directory is watched.
C27_Witness ==
    /\ mainPc = "run"
    /\ "alice" \in DOMAIN tableFiles.user
    /\ RefusedLines(tableFiles.user["alice"]) # {}
    /\ \E i \in 1..Len(tableFiles.user["alice"]) : ParseEntry(tableFiles.user["alice"][i]).kind = "rule"
    /\ "alice" \notin DOMAIN tables.user
    /\ "bob" \in DOMAIN tables.user
    /\ "sys" \in DOMAIN tables.system
    /\ PathD \in DOMAIN pathWatches

\* A table line seen as the claim sees it: the trimmed line, its fields (cut
\* at the first two spaces) and the comma-separated tokens of its second field.
FieldsOf(x) == SplitN(TrimSpace(x), " ", 3)
TokensOf(x) == [i \in 1..Len(Split(FieldsOf(x)[2], ",")) |-> TrimSpace(Split(FieldsOf(x)[2], ",")[i])]
IsOptionToken(token) == ContainsChar(token, "=")
OptionKey(token) == TrimSpace(SplitN(token, "=", 2)[1])
OptionValue(token) == TrimSpace(SplitN(token, "=", 2)[2])
IsEventToken(token) ==
    ~ IsOptionToken(token) /\ (token \in {<<name>> : name \in EventNames} \/ parseNumericMask(token).ok)
EventTokenMask(token) ==
    IF Len(token) = 1 /\ token[1] \in EventNames THEN EventMaskOf(token[1])
    ELSE parseNumericMask(token).val
HasBit(mask, b) == (mask \div (2 ^ b)) % 2 = 1

\* The value the tokens give to the option of this key: that of the last
\* token with the key, the default when there is none.
OptionSetting(tokens, key, default) ==
    LET at == {i \in 1..Len(tokens) : IsOptionToken(tokens[i]) /\ OptionKey(tokens[i]) = <<key>>}
    IN  IF at = {} THEN default
        ELSE OptionValue(tokens[CHOOSE i \in at : \A j \in at : j <= i]) = <<"true">>

\* C28: for every line of a table file: an empty line and a comment give no
\* rule and no error; a line with fewer than three fields or with an event
\* token that is neither a name nor a numeral gives an error; and a rule has
\* the first field as its path, the rest of the line after the second field
\* as its command, the bits of the event tokens of the second field and no
\* others as its mask, and each option as its own tokens set it, NoLoop = TRUE,
\* Recursive = TRUE and DotDirs = FALSE where there is no such token.
C28_ParseEntryFields ==
    \A x \in FileLines :
        LET r == ParseEntry(x)
            tokens == TokensOf(x)
        IN  /\ (TrimSpace(x) = <<>> \/ TrimSpace(x)[1] = "#") => r = NoRule
            /\ (TrimSpace(x) # <<>> /\ TrimSpace(x)[1] # "#")
                  => /\ r.kind \in {"rule", "error"}
                     /\ Len(FieldsOf(x)) < 3 => r.kind = "error"
                     /\ (Len(FieldsOf(x)) = 3
                           /\ \E i \in 1..Len(tokens) :
                                 ~ IsOptionToken(tokens[i]) /\ ~ IsEventToken(tokens[i]))
                          => r.kind = "error"
            /\ r.kind = "rule"
                  => /\ TrimSpace(x) = r.entry.Path \o <<" ">> \o FieldsOf(x)[2] \o <<" ">>
                                            \o r.entry.Command
                     /\ ~ ContainsChar(r.entry.Path, " ")
                     /\ ~ ContainsChar(FieldsOf(x)[2], " ")
                     /\ \A b \in 0..30 :
                           HasBit(r.entry.Mask, b)
                              <=> \E i \in 1..Len(tokens) :
                                     IsEventToken(tokens[i])
                                        /\ HasBit(EventTokenMask(tokens[i]), b)
                     /\ r.entry.NoLoop = ~ OptionSetting(tokens, "loopable", FALSE)
                     /\ r.entry.Recursive = OptionSetting(tokens, "recursive", TRUE)
                     /\ r.entry.DotDirs = OptionSetting(tokens, "dotdirs", FALSE)

\* The daemon has loaded a system table whose line gives two events, one of
\* them as a numeral, and sets two options, the third keeping its default.
C28_Witness ==
    /\ mainPc = "run"
    /\ "sys" \in DOMAIN tables.system
    /\ \E i \in 1..Len(tables.system["sys"]) :
          LET entry == tables.system["sys"][i]
          IN  /\ entry.Mask = BitOr(InCreate, InDelete)
              /\ ~ entry.Recursive /\ entry.DotDirs /\ entry.NoLoop

\* C29: every admitted call of Execute gets its result and returns it, and
\* blocks neither itself nor other operations of the executor for ever: no
\* call that has received its child's result waits for the executor's mutex
\* while it is itself the holder.
C29_AdmittedCallReturns ==
    \A g \in G : (ex[g].pc = "relock" /\ resultChan[g] # NoResult) => ceMu.w # g

\* The directories below the rule's directory, and those of them that are, or
\* lie below, a directory under the rule's directory with a name that starts
\* with ".".
Descendants(e) == {q \in Dirs : fs[q] # 0 /\ IsUnder(q, CleanPath(e.Path))}
DotHidden(e) ==
    {q \in Descendants(e) :
        \E r \in Descendants(e) : (r = q \/ IsUnder(q, r)) /\ BaseName(r)[1] = "."}

\* C30: in every state, an AddWatch call that returns no error leaves the
\* rule's path in the path index with the rule as its Entry; for a recursive
\* rule also every directory below it whose watch the kernel accepts, with no
\* Entry and the rule's mask, except, when DotDirs is false, the dot
\* directories and what lies below them, which the call does not touch; for
\* a rule that is not recursive the rule's path is the only path added.  A
\* subdirectory whose watch is refused changes nothing about the call's
\* success.
C30_RecursiveCoverage ==
    \A e \in WatchEntries, f \in WatchFailures :
        LET r == AddWatchResult(WatchState, ValPtr(e), f)
            paths == r.st.pathWatches
        IN  /\ (f.walk = <<>> /\ f.add # <<>> /\ f.add # CleanPath(e.Path))
                  => r.err = AddWatchResult(WatchState, ValPtr(e), NoFail).err
            /\ r.err = ""
                  => /\ e.Path \in DOMAIN paths
                     /\ r.st.watches[paths[e.Path]].Entry = ValPtr(e)
                     /\ r.st.watches[paths[e.Path]].Mask = e.Mask
                     /\ e.Recursive =>
                           /\ \A q \in Descendants(e) \ (IF e.DotDirs THEN {} ELSE DotHidden(e)) :
                                 q # f.add =>
                                    /\ q \in DOMAIN paths
                                    /\ r.st.watches[paths[q]].Entry = NoEntry
                                    /\ r.st.watches[paths[q]].Mask = e.Mask
                           /\ ~ e.DotDirs =>
                                 \A q \in DotHidden(e) :
                                    /\ q \in DOMAIN paths <=> q \in DOMAIN pathWatches
                                    /\ q \in DOMAIN pathWatches => paths[q] = pathWatches[q]
                     /\ ~ e.Recursive => DOMAIN paths = DOMAIN pathWatches \cup {e.Path}

\* The first call was AddWatch for a recursive rule on /d without dot
\* directories, with /d/.h and /d/s existing: /d and /d/s are indexed, /d/.h
\* is not.
C30_Witness ==
    /\ apiCalls = 1 /\ fsOps = 0
    /\ PathD \in DOMAIN pathWatches
    /\ watches[pathWatches[PathD]].Entry # NoEntry
    /\ Deref(watches[pathWatches[PathD]].Entry).Recursive
    /\ ~ Deref(watches[pathWatches[PathD]].Entry).DotDirs
    /\ PathDS \in DOMAIN pathWatches
    /\ watches[pathWatches[PathDS]].Entry = NoEntry
    /\ fs[PathDH] # 0
    /\ PathDH \notin DOMAIN pathWatches

\* The descriptors whose IN_IGNORED record the read loop has not handled yet.
PendingIgnored ==
    {r.wd : r \in {kQueue[i] : i \in 1..Len(kQueue)} \cup {rd.buf[i] : i \in 1..Len(rd.buf)}}

\* C31: the descriptors of the wd index are the kernel's live watches, apart
\* from those whose removal the kernel has reported in a record that is still
\* unread, and no two entries of the wd index carry the same path, also after
\* a watched directory was removed and created again.
C31_IndexIsLiveWatches ==
    /\ \A wd \in DOMAIN watches : wd \in DOMAIN kWatch \/ wd \in PendingIgnored
    /\ \A wd \in DOMAIN kWatch : wd \in DOMAIN watches
    /\ \A wd1, wd2 \in DOMAIN watches : watches[wd1].Path = watches[wd2].Path => wd1 = wd2

\* The names of the single bits that are set in the mask.
SetBitNames(mask) ==
    {fn[2] : fn \in {x \in ReverseEventMaskMap : x[1] # InAllEvents /\ BitAnd(mask, x[1]) # 0}}

\* C32: for every call of Execute that has built its command, the text put
\* for "$%" consists of the names of the bits set in the event's mask and of
\* no other name, comma-joined, or is "0x<hex>" when no set bit has a name;
\* for the mask IN_CREATE it is "IN_CREATE".
C32_MaskTextNamesSetBits ==
    \A g \in G :
        ex[g].pc \in {"wait", "relock", "returned"}
            => \A text \in EventMaskTexts(ex[g].event.Mask) :
                  /\ SetBitNames(ex[g].event.Mask) = {}
                        => text = <<"0", "x">> \o FormatHex(ex[g].event.Mask)
                  /\ SetBitNames(ex[g].event.Mask) # {}
                        => {text[i] : i \in 1..Len(text)} \ {","} = SetBitNames(ex[g].event.Mask)
                  /\ ex[g].event.Mask = InCreate => text = <<"IN_CREATE">>

\* C33: a failed read that is not EINTR ends with the error appended once to
\* w.errors and the read loop returned; and once the read loop has returned
\* no event is added to w.events and the loop stays returned.
C33_ReadErrorEmittedOnce ==
    [][/\ (rd.pc = "senderr" /\ rd'.pc # "senderr")
            => (rd'.pc = "exit" /\ errors'.buf = Append(errors.buf, "read error"))
       /\ (rd.pc = "exit") => (rd'.pc = "exit" /\ Len(events'.buf) <= Len(events.buf))]_vars

\* C34: the entry that a started Execute call is going to read (for the
\* loop-prevention check and for the command) stays the entry that matched
\* when handleEvent started the call: no step changes what the call's entry
\* pointer refers to while the call is still ahead of its reads.
C34_ExecuteGetsMatchedEntry ==
    [][\A g \in G :
          (ex[g].pc \in {"lock", "check", "build"} /\ ex'[g].pc # "idle")
              => Deref(ex[g].entry)' = Deref(ex[g].entry)]_vars

\* C35: the read loop never sends on w.events or w.errors after Stop has
\* closed the channel: it never arrives at the panic of such a send.
C35_NoSendOnClosedChannel ==
    rd.pc = "panic" => ~ (events.closed \/ errors.closed)

\* C36: a SIGTERM or SIGINT delivered once handleSignals is installed is not
\* lost: after the step of its delivery the shutdown channel is closed or a
\* terminate signal waits in sigChan for handleSignals to close it.
C36_TerminateSignalNotLost ==
    [][\A s \in {"SIGTERM", "SIGINT"} :
          SignalArrives(s)
              => \/ shutdown'
                 \/ \E i \in 1..Len(sg'.sigChan) : sg'.sigChan[i] \in {"SIGTERM", "SIGINT"}]_vars

(***************************************************************************)
(* The watcher's life cycle: Start and Stop called in any order by the     *)
(* owner of the watcher, next to AddWatch, the file system and the read    *)
(* loop.  mainPc is the calling goroutine: "panic" once a call has         *)
(* panicked.  A Start that follows a Stop is taken when the read loop of   *)
(* the earlier Start has returned.                                         *)
(***************************************************************************)
\* Watcher.Start: an error on a running watcher; otherwise running is set and
\* readEvents is started.
StartCall ==
    IF wRunning
    THEN UNCHANGED <<kernelVars, watchVars>>
    ELSE /\ rd.pc \in {"none", "exit"}
         /\ wRunning' = TRUE
         /\ rd' = [pc |-> "select", buf |-> <<>>]
         /\ UNCHANGED <<kernelVars, watches, pathWatches, wDone, events, errors>>

\* Watcher.Stop: nil on a watcher that is not running; otherwise running is
\* cleared and w.done is closed first, and close panics on a channel that an
\* earlier Stop has closed.
StopCall ==
    IF wRunning /\ wDone
    THEN /\ wRunning' = FALSE
         /\ mainPc' = "panic"
         /\ UNCHANGED <<kernelVars, watches, pathWatches, wDone, events, errors, rd,
                        tables, hd, sg, shutdown, done>>
    ELSE /\ WatcherStop
         /\ UNCHANGED daemonVars

InitLifecycle == InitWatch

NextLifecycle ==
    /\ mainPc # "panic"
    /\ \/ /\ apiCalls < MaxWatchCalls
          /\ apiCalls' = apiCalls + 1
          /\ \E e \in WatchEntries : AddWatch(ValPtr(e), NoFail)
          /\ UNCHANGED <<tableFiles, permFiles, execVars, daemonVars>>
       \/ StartCall /\ UNCHANGED <<execVars, envVars, daemonVars>>
       \/ StopCall /\ UNCHANGED <<execVars, envVars>>
       \/ ReadLoopStep /\ UNCHANGED <<execVars, envVars, daemonVars>>
       \/ FsStep /\ UNCHANGED <<watchVars, execVars, envVars, daemonVars>>

SpecLifecycle == InitLifecycle /\ [][NextLifecycle]_vars

\* C37: a Start on a running watcher starts no read loop and changes nothing,
\* a Stop on a watcher that is not running changes nothing, and no Stop closes
\* a channel or the descriptor that an earlier Stop has closed.
C37_StartStopIdempotent ==
    [][/\ (wRunning /\ StartCall) => UNCHANGED <<kernelVars, watchVars>>
       /\ (~ wRunning /\ StopCall) => UNCHANGED <<kernelVars, watchVars>>
       /\ (wDone /\ StopCall) => (mainPc' # "panic" /\ UNCHANGED <<wDone, events, errors, fdOpen>>)
      ]_vars

\* C38: a call of AddWatch that returns an error leaves w.watches and
\* w.pathWatches as they were before the call, whatever the rule and whatever
\* the system refuses during the call.
C38_FailedAddWatchChangesNothing ==
    [][\A e \in WatchEntries, f \in WatchFailures :
          (/\ apiCalls' # apiCalls
           /\ AddWatchResult(WatchState, ValPtr(e), f).err # ""
           /\ AddWatch(ValPtr(e), f))
              => (watches' = watches /\ pathWatches' = pathWatches)]_vars

\* C39: once Initialize has run LoadTables, every loaded rule whose path is an
\* existing directory has an entry for its path in both indices, and the mask
\* of that entry has every bit of the rule's mask.
C39_EveryLoadedRuleWatched ==
    mainPc = "run" =>
        \A entry \in LoadedEntries :
            DirExists(entry.Path)
                => /\ entry.Path \in DOMAIN pathWatches
                   /\ pathWatches[entry.Path] \in DOMAIN watches
                   /\ BitAnd(watches[pathWatches[entry.Path]].Mask, entry.Mask) = entry.Mask

\* maskToString (the value of INCRON_EVENT): the names in map-iteration
\* order, joined with "|"; "0x<hex>" when no name applies.  The result is one
\* of these texts.
maskToString(mask) ==
    IF MaskNames(mask) = {} THEN {<<"0", "x">> \o FormatHex(mask)}
    ELSE {JoinWith(o, <<"|">>) : o \in Orderings(MaskNames(mask))}

\* C40: for every call of Execute that has built its command, the command
\* template, watch directory, file name and mask of the call have one
\* expansion only, and the mask has one INCRON_EVENT text only: a second call
\* with the same arguments cannot return another string.
C40_ExpandDeterministic ==
    \A g \in G :
        ex[g].pc \in {"wait", "relock", "returned"}
            => /\ Cardinality({ExpandCommand(Deref(ex[g].entry).Command, ex[g].event.WatchDir,
                                             ex[g].event.Name, text, ex[g].event.Mask) :
                                 text \in EventMaskTexts(ex[g].event.Mask)}) = 1
               /\ Cardinality(maskToString(ex[g].event.Mask)) = 1
====
